---- MODULE Spec2Model ----
(***************************************************************************)
(* A model of cleanbox: the tag dictionary (tags.rs), the media pipeline   *)
(* FileProcessor and the unified pipeline UnifiedProcessor (processor.rs). *)
(*                                                                         *)
(* Strings whose characters matter (tags, queries, lines of the tags file) *)
(* are sequences of ASCII codes: 32 ' ', 45 '-', 65 'A', 97 'a', 98 'b'.   *)
(* A Rust Result is the record Ok(v) or Err(kind).                         *)
(***************************************************************************)
EXTENDS Integers, Sequences, FiniteSets, TLC

VARIABLES
    dict,       \* TagDictionary.tags (tags.rs:8): a set of strings
    op,         \* the last call made on the dictionary, its arguments and its result
    fs,         \* the file system: path -> entry
    fs0,        \* the file system when the run started
    config,     \* ProcessingConfig (config.rs:4-11)
    dpc,        \* where process_directory stands: "start", "loop", "done"
    listing,    \* what read_directory returned to process_directory
    idx,        \* the position of the for loop in the listing
    result,     \* the ProcessingResult being accumulated
    ret,        \* the value process_directory returned
    dlog,       \* one record per iteration of the loop of process_directory
    lpc,        \* where process_life_directory stands
    categorized,\* the CategorizedFiles of the run
    uresult,    \* the UnifiedProcessingResult being accumulated
    llog,       \* one record per file handled by the media and document loops
    tagsFile,   \* the tags file on disk
    tagIo       \* the reads and writes of the tags file, in order

tagVars == <<dict, op>>
dirVars == <<fs, fs0, config, dpc, listing, idx, result, ret, dlog>>
lifeVars == <<lpc, categorized, uresult, llog, tagsFile, tagIo>>
vars == <<dict, op, fs, fs0, config, dpc, listing, idx, result, ret, dlog,
          lpc, categorized, uresult, llog, tagsFile, tagIo>>

(***************************************************************************)
(* Bounds of the model.                                                    *)
(***************************************************************************)
MaxLen == 2          \* longest string typed as a tag, a query or a line
MaxDict == 2         \* most tags the dictionary holds
MaxResults == 2      \* largest max_results handed to find_similar
MaxLines == 2        \* most lines of a tags file
MaxFiles == 2        \* most entries of the inbox

(***************************************************************************)
(* Strings.                                                                *)
(***************************************************************************)
TagChars == {45, 65, 97, 98}
LineChars == {32, 45, 97}

StringsOver(chars, n) == UNION {[1..k -> chars] : k \in 0..n}

Strings == StringsOver(TagChars, MaxLen)
Lines == StringsOver(LineChars, MaxLen)

Ok(v) == [ok |-> TRUE, val |-> v]
Err(kind) == [ok |-> FALSE, err |-> kind]

Min(a, b) == IF a <= b THEN a ELSE b
Max(a, b) == IF a >= b THEN a ELSE b

starts_with(s, p) == Len(p) <= Len(s) /\ SubSeq(s, 1, Len(p)) = p

ends_with(s, p) == Len(p) <= Len(s) /\ SubSeq(s, Len(s) - Len(p) + 1, Len(s)) = p

\* the 0-based positions at which p occurs in s
Occurrences(s, p) ==
    {i \in 0..(Len(s) - Len(p)) : SubSeq(s, i + 1, i + Len(p)) = p}

contains(s, p) == Occurrences(s, p) # {}

\* str::find: the first position, None as -1
find(s, p) ==
    IF contains(s, p)
    THEN CHOOSE i \in Occurrences(s, p) : \A j \in Occurrences(s, p) : i <= j
    ELSE -1

\* str::cmp: byte-wise lexicographic order
RECURSIVE StrLess(_, _)
StrLess(a, b) ==
    IF b = << >> THEN FALSE
    ELSE IF a = << >> THEN TRUE
    ELSE IF Head(a) # Head(b) THEN Head(a) < Head(b)
    ELSE StrLess(Tail(a), Tail(b))

StrLeq(a, b) == a = b \/ StrLess(a, b)

\* slice::sort of a collection of distinct strings
RECURSIVE SortStrings(_)
SortStrings(S) ==
    IF S = {} THEN << >>
    ELSE LET least == CHOOSE x \in S : \A y \in S : StrLeq(x, y)
         IN  <<least>> \o SortStrings(S \ {least})

truncate(seq, n) == SubSeq(seq, 1, Min(n, Len(seq)))

is_whitespace(c) == c = 32

\* str::trim
RECURSIVE trim_start(_)
trim_start(s) ==
    IF s # << >> /\ is_whitespace(Head(s)) THEN trim_start(Tail(s)) ELSE s

RECURSIVE trim_end(_)
trim_end(s) ==
    IF s # << >> /\ is_whitespace(s[Len(s)])
    THEN trim_end(SubSeq(s, 1, Len(s) - 1))
    ELSE s

trim(s) == trim_end(trim_start(s))

is_ascii_lowercase(c) == c \in 97..122
is_ascii_digit(c) == c \in 48..57
is_ascii(c) == c \in 0..127

(***************************************************************************)
(* tags.rs                                                                 *)
(***************************************************************************)
\* validate_tag_format without the check of the last character
validate_tag_format_no_end_check(tag) ==
    IF tag = << >> THEN Err("InvalidUserInput")
    ELSE IF ~ \A i \in 1..Len(tag) :
                is_ascii_lowercase(tag[i]) \/ is_ascii_digit(tag[i]) \/ tag[i] = 45
         THEN Err("InvalidUserInput")
    ELSE IF starts_with(tag, <<45>>) THEN Err("InvalidUserInput")
    ELSE IF contains(tag, <<45, 45>>) THEN Err("InvalidUserInput")
    ELSE Ok("unit")

validate_tag_format(tag) ==
    IF tag = << >> THEN Err("InvalidUserInput")
    ELSE IF ~ \A i \in 1..Len(tag) :
                is_ascii_lowercase(tag[i]) \/ is_ascii_digit(tag[i]) \/ tag[i] = 45
         THEN Err("InvalidUserInput")
    ELSE IF starts_with(tag, <<45>>) \/ ends_with(tag, <<45>>)
         THEN Err("InvalidUserInput")
    ELSE IF contains(tag, <<45, 45>>) THEN Err("InvalidUserInput")
    ELSE IF ~ \A i \in 1..Len(tag) : is_ascii(tag[i]) THEN Err("InvalidUserInput")
    ELSE Ok("unit")

SimilarTag(tag, distance, similarity) ==
    [tag |-> tag, distance |-> distance, similarity |-> similarity]

\* find_similar that forgets the substring matches
find_similar_prefix_only(tags, query, max_results) ==
    IF query = << >> THEN << >>
    ELSE LET prefixSorted == SortStrings({t \in tags : starts_with(t, query)})
         IN  truncate([i \in 1..Len(prefixSorted) |-> SimilarTag(prefixSorted[i], 0, 10)],
                      max_results)

\* find_similar that appends the prefix matches to the substring matches
find_similar_substring_first(tags, query, max_results) ==
    IF query = << >> THEN << >>
    ELSE LET prefixSorted == SortStrings({t \in tags : starts_with(t, query)})
             substringSorted ==
                 SortStrings({t \in tags : ~ starts_with(t, query) /\ contains(t, query)})
         IN  truncate([i \in 1..Len(substringSorted) |->
                          SimilarTag(substringSorted[i],
                                     Max(find(substringSorted[i], query), 0), 5)]
                      \o [i \in 1..Len(prefixSorted) |-> SimilarTag(prefixSorted[i], 0, 10)],
                      max_results)

\* similarity is kept in tenths: 10 is 1.0, 5 is 0.5
find_similar(tags, query, max_results) ==
    IF query = << >> THEN << >>
    ELSE LET prefixSet == {t \in tags : starts_with(t, query)}
             substringSet == {t \in tags : ~ starts_with(t, query) /\ contains(t, query)}
             prefixSorted == SortStrings(prefixSet)
             substringSorted == SortStrings(substringSet)
             prefix_matches ==
                 [i \in 1..Len(prefixSorted) |-> SimilarTag(prefixSorted[i], 0, 10)]
             substring_matches ==
                 [i \in 1..Len(substringSorted) |->
                     SimilarTag(substringSorted[i],
                                Max(find(substringSorted[i], query), 0), 5)]
         IN  truncate(prefix_matches \o substring_matches, max_results)

\* TagResolutionFlow::resolve_tag
resolve_tag(tags, input_tag) ==
    IF input_tag \in tags
    THEN [kind |-> "ExactMatch", tag |-> input_tag]
    ELSE LET similar == find_similar(tags, input_tag, 3)
         IN  IF similar = << >>
             THEN [kind |-> "NoMatch", input |-> input_tag,
                   can_create |-> validate_tag_format(input_tag).ok]
             ELSE [kind |-> "SimilarFound", input |-> input_tag, similar |-> similar,
                   can_create |-> validate_tag_format(input_tag).ok]

\* an add_tag that inserts without validating
add_tag_unchecked(tags, tag) == [result |-> Ok("unit"), tags |-> tags \cup {tag}]

\* TagDictionary::add_tag: the result and the set afterwards
add_tag(tags, tag) ==
    IF validate_tag_format(tag).ok
    THEN [result |-> Ok("unit"), tags |-> tags \cup {tag}]
    ELSE [result |-> validate_tag_format(tag), tags |-> tags]

\* the lines of a file, each trimmed, the empty ones dropped (tags.rs:29-33)
RECURSIVE nonempty_trimmed(_)
nonempty_trimmed(lines) ==
    IF lines = << >> THEN << >>
    ELSE IF trim(Head(lines)) = << >> THEN nonempty_trimmed(Tail(lines))
    ELSE <<trim(Head(lines))>> \o nonempty_trimmed(Tail(lines))

\* the first error of validate_tag_format over the lines, in order (the ? of tags.rs:36)
RECURSIVE first_invalid(_)
first_invalid(tagLines) ==
    IF tagLines = << >> THEN Ok("unit")
    ELSE IF ~ validate_tag_format(Head(tagLines)).ok THEN validate_tag_format(Head(tagLines))
    ELSE first_invalid(Tail(tagLines))

\* A file on disk: whether fs::read_to_string succeeds, and its lines (str::lines).
FileOf(readable, lines) == [readable |-> readable, lines |-> lines]

\* TagDictionary::load_from_file
load_from_file(file) ==
    IF ~ file.readable THEN Err("TagDictionaryCorrupted")
    ELSE LET tagLines == nonempty_trimmed(file.lines)
         IN  IF ~ first_invalid(tagLines).ok THEN first_invalid(tagLines)
             ELSE Ok({tagLines[i] : i \in 1..Len(tagLines)})

(***************************************************************************)
(* Paths and file names.  A file name, a datetime, a MIME type or a hash   *)
(* is a sequence of tokens (TLA+ strings that are never split further); a  *)
(* path is a directory (a sequence of components) and a file name.         *)
(***************************************************************************)
Some(v) == [some |-> TRUE, val |-> v]
None == [some |-> FALSE]

PathOf(dir, name) == [dir |-> dir, name |-> name]

\* Path::with_file_name
with_file_name(path, name) == PathOf(path.dir, name)

\* Path::join of a directory and a file name
join(dir, name) == PathOf(dir, name)

\* the position of the last "." of a file name, 0 when it has none
LastDot(name) ==
    IF \E i \in 1..Len(name) : name[i] = "."
    THEN CHOOSE i \in 1..Len(name) :
             name[i] = "." /\ \A j \in (i + 1)..Len(name) : name[j] # "."
    ELSE 0

\* Path::extension: what follows the last ".", none without a "." after the first token
extension(name) ==
    IF LastDot(name) <= 1 THEN None
    ELSE Some(SubSeq(name, LastDot(name) + 1, Len(name)))

\* Path::file_stem
file_stem(name) ==
    IF name = << >> THEN None
    ELSE IF LastDot(name) <= 1 THEN Some(name)
    ELSE Some(SubSeq(name, 1, LastDot(name) - 1))

\* str::split: the pieces of s between the occurrences of the token sep
RECURSIVE split(_, _)
split(s, sep) ==
    IF \E i \in 1..Len(s) : s[i] = sep
    THEN LET first == CHOOSE i \in 1..Len(s) :
                          s[i] = sep /\ \A j \in 1..(i - 1) : s[j] # sep
         IN  <<SubSeq(s, 1, first - 1)>> \o split(SubSeq(s, first + 1, Len(s)), sep)
    ELSE <<s>>

\* str::to_lowercase on the tokens of the MIME types of the model
LowerToken(t) ==
    CASE t = "IMAGE/" -> "image/"
      [] t = "PNG" -> "png"
      [] OTHER -> t

to_lowercase(s) == [i \in 1..Len(s) |-> LowerToken(s[i])]

(***************************************************************************)
(* media.rs                                                                *)
(***************************************************************************)
\* FileType::from_mime
from_mime(mime) ==
    LET mime_lower == to_lowercase(mime)
    IN  IF starts_with(mime_lower, <<"image/">>) THEN "Image"
        ELSE IF starts_with(mime_lower, <<"video/">>) THEN "Video"
        ELSE IF \/ starts_with(mime_lower, <<"application/pdf">>)
                \/ starts_with(mime_lower, <<"application/msword">>)
                \/ starts_with(mime_lower, <<"application/vnd.openxmlformats">>)
                \/ starts_with(mime_lower, <<"text/">>)
             THEN "Document"
        ELSE "Unknown"

needs_interactive_processing(file_type) == file_type = "Document"

is_auto_processable(file_type) == file_type \in {"Image", "Video"}

should_skip(file_type) == file_type = "Unknown"

base_directory_name(file_type) ==
    CASE file_type \in {"Image", "Video"} -> Some("media")
      [] file_type = "Document" -> Some("documents")
      [] OTHER -> None

\* FileMetadata::new and with_datetime
FileMetadata(mime_type, datetime_original) ==
    [mime_type |-> mime_type, file_type |-> from_mime(mime_type),
     datetime_original |-> datetime_original]

(***************************************************************************)
(* The file system.  fs maps each existing path to its entry: a directory  *)
(* or a regular file with its bytes (cid), what the metadata parser makes  *)
(* of them (parse, mime, datetime).                                        *)
(***************************************************************************)
FileEntry(cid, parse, mime, datetime) ==
    [kind |-> "file", cid |-> cid, parse |-> parse, mime |-> mime, datetime |-> datetime]

DirEntry ==
    [kind |-> "dir", cid |-> 0, parse |-> "Io", mime |-> << >>, datetime |-> None]

\* an existence check that always answers yes
file_exists_always(files, path) == TRUE

\* FileManager::file_exists and is_file of StdFileManager
file_exists(files, path) == path \in DOMAIN files

is_file(files, path) == path \in DOMAIN files /\ files[path].kind = "file"

\* FileManager::read_directory: the paths of a directory, in the order given
DirectoryPaths(files, dir) == {p \in DOMAIN files : p.dir = dir}

\* StdFileManager::rename_file (fs::rename): fails when the system call does or the
\* source is missing or the destination is a directory; else replaces the destination
rename_file(files, from, to, fails) ==
    IF fails \/ from \notin DOMAIN files \/ (to \in DOMAIN files /\ files[to].kind = "dir")
    THEN [result |-> Err("Io"), files |-> files]
    ELSE [result |-> Ok("unit"),
          files |-> [p \in (DOMAIN files \ {from}) \cup {to} |->
                        IF p = to THEN files[from] ELSE files[p]]]

\* StdFileManager::move_file: create the parent directories, then rename
move_file(files, from, to, fails) == rename_file(files, from, to, fails)

\* the SHA-1 of the bytes of a file, in hexadecimal digits
HashOf(cid) ==
    CASE cid = 1 -> <<"a", "1", "b", "2", "c", "3", "d", "4">>
      [] cid = 2 -> <<"e", "5", "f", "6", "0", "7", "1", "8">>
      [] OTHER -> <<"9", "9", "9", "9", "9", "9", "9", "9">>

\* StdFileManager::calculate_file_hash
calculate_file_hash(files, path, fails) ==
    IF fails \/ ~ is_file(files, path) THEN Err("Io") ELSE Ok(HashOf(files[path].cid))

\* a suffix that is the whole hash, whatever the length asked for
generate_hash_suffix_whole(hash, length) == hash

\* FileHasher::generate_hash_suffix
generate_hash_suffix(hash, length) == SubSeq(hash, 1, Min(length, Len(hash)))

\* FileHasher::append_hash_to_filename
append_hash_to_filename(original_name, hash_suffix) ==
    IF ~ file_stem(original_name).some THEN Err("InvalidFileStem")
    ELSE IF ~ extension(original_name).some THEN Err("InvalidFileExtension")
    ELSE Ok(file_stem(original_name).val \o <<"_">> \o hash_suffix
            \o <<".">> \o extension(original_name).val)

\* MetadataParser::parse_metadata: the parser's answer for the file at path
parse_metadata(files, path) ==
    IF ~ is_file(files, path) THEN Err("Io")
    ELSE IF files[path].parse # "Ok" THEN Err(files[path].parse)
    ELSE Ok(FileMetadata(files[path].mime, files[path].datetime))

(***************************************************************************)
(* naming.rs, organization.rs, paths.rs                                    *)
(***************************************************************************)
\* TimestampNamingStrategy::generate_name
generate_name(path, metadata) ==
    IF ~ extension(path.name).some THEN Err("InvalidFileExtension")
    ELSE IF ~ metadata.datetime_original.some THEN Err("Exif")
    ELSE Ok(metadata.datetime_original.val \o <<".">> \o extension(path.name).val)

\* MonthlyOrganizer::parse_datetime_parts
parse_datetime_parts(datetime) ==
    LET date_part == split(datetime, "_")[1]
        date_split == split(date_part, "-")
    IN  IF Len(date_split) < 2 THEN Err("InvalidDateTime")
        ELSE Ok([year |-> date_split[1], month |-> date_split[2]])

\* MonthlyOrganizer::determine_target_directory
determine_target_directory(metadata, base_path) ==
    IF ~ metadata.datetime_original.some THEN Err("Exif")
    ELSE LET parts == parse_datetime_parts(metadata.datetime_original.val)
         IN  IF ~ parts.ok THEN parts
             ELSE Ok(base_path \o <<parts.val.year, parts.val.month>>)

\* Path::parent of a directory
parent(dir) == IF dir = << >> THEN None ELSE Some(SubSeq(dir, 1, Len(dir) - 1))

\* LifeDirectoryResolver::resolve_base_path for a ProcessingConfig
resolve_base_path(file_type, cfg) ==
    IF base_directory_name(file_type) = Some("media") THEN cfg.media_root
    ELSE IF base_directory_name(file_type) = Some("documents")
         THEN (IF parent(cfg.media_root).some THEN parent(cfg.media_root).val
               ELSE cfg.media_root) \o <<(<<"documents">>)>>
    ELSE cfg.media_root

(***************************************************************************)
(* processor.rs: FileProcessor                                             *)
(***************************************************************************)
\* ProcessingResult::new, add_error, skip_file, process_file
NewProcessingResult ==
    [processed_files |-> 0, skipped_files |-> 0, failed_files |-> 0, errors |-> << >>]

add_error(r, error) ==
    [r EXCEPT !.errors = Append(@, error), !.failed_files = @ + 1]

skip_file(r) == [r EXCEPT !.skipped_files = @ + 1]

process_file(r) == [r EXCEPT !.processed_files = @ + 1]

\* should_skip_error that also skips IO errors
should_skip_error_and_io(error) == error \in {"UnsupportedFileType", "Exif", "Io"}

\* FileProcessor::should_skip_error
should_skip_error(error) == error \in {"UnsupportedFileType", "Exif"}

\* format!("{}: {}", file_path.display(), e)
ErrorMsg(path, error) == [path |-> path, error |-> error]

\* FileProcessor::handle_duplicate
handle_duplicate(files, cfg, source_path, target_path, hashFails) ==
    CASE cfg.handle_duplicates = "Skip" -> Err("FileAlreadyExists")
      [] cfg.handle_duplicates = "Overwrite" -> Ok(target_path)
      [] cfg.handle_duplicates = "Error" -> Err("FileAlreadyExists")
      [] cfg.handle_duplicates = "AppendHash" ->
            LET hash == calculate_file_hash(files, source_path, hashFails)
            IN  IF ~ hash.ok THEN hash
                ELSE LET hash_suffix == generate_hash_suffix(hash.val, cfg.hash_length)
                         new_name == append_hash_to_filename(target_path.name, hash_suffix)
                     IN  IF ~ new_name.ok THEN new_name
                         ELSE Ok(with_file_name(target_path, new_name.val))

FsOp(name, from, to) == [op |-> name, from |-> from, to |-> to]

Outcome(res, files, ops) == [result |-> res, files |-> files, ops |-> ops]

\* a pipeline that does not look at the category of the file
process_single_file_unrouted(files, cfg, file_path, io) ==
    LET parsed == parse_metadata(files, file_path)
    IN  IF ~ parsed.ok THEN Outcome(parsed, files, << >>)
        ELSE IF ~ generate_name(file_path, parsed.val).ok
             THEN Outcome(generate_name(file_path, parsed.val), files, << >>)
        ELSE
        LET metadata == parsed.val
            new_name == generate_name(file_path, metadata).val
            temp_path == with_file_name(file_path, new_name)
            renamed == IF file_path # temp_path
                       THEN rename_file(files, file_path, temp_path, io = "rename")
                       ELSE [result |-> Ok("unit"), files |-> files]
            ops1 == IF file_path # temp_path
                    THEN <<FsOp("rename", file_path, temp_path)>>
                    ELSE << >>
        IN  IF ~ renamed.result.ok THEN Outcome(renamed.result, files, ops1)
            ELSE
            LET files1 == renamed.files
                base_path == resolve_base_path(metadata.file_type, cfg)
                target_dir == determine_target_directory(metadata, base_path)
            IN  IF ~ target_dir.ok THEN Outcome(target_dir, files1, ops1)
                ELSE
                LET target_path == join(target_dir.val, new_name)
                    exists == file_exists(files1, target_path)
                    resolved == IF exists
                                THEN handle_duplicate(files1, cfg, temp_path, target_path,
                                                      io = "hash")
                                ELSE Ok(target_path)
                    ops2 == ops1 \o <<FsOp("exists", target_path, target_path)>>
                            \o (IF exists /\ cfg.handle_duplicates = "AppendHash"
                                THEN <<FsOp("hash", temp_path, temp_path)>>
                                ELSE << >>)
                IN  IF ~ resolved.ok THEN Outcome(resolved, files1, ops2)
                    ELSE
                    LET moved == move_file(files1, temp_path, resolved.val, io = "move")
                    IN  Outcome(moved.result, moved.files,
                                ops2 \o <<FsOp("move", temp_path, resolved.val)>>)

\* FileProcessor::process_single_file with the timestamp naming, the monthly
\* organizer and the life directory resolver.  io names the file system call that
\* the operating system fails, if any.  Returns the Result, the file system
\* afterwards and the file system calls made.
process_single_file(files, cfg, file_path, io) ==
    LET parsed == parse_metadata(files, file_path)
    IN  IF ~ parsed.ok THEN Outcome(parsed, files, << >>)
        ELSE IF should_skip(parsed.val.file_type)
             THEN Outcome(Err("UnsupportedFileType"), files, << >>)
        ELSE IF needs_interactive_processing(parsed.val.file_type)
             THEN Outcome(Err("UnsupportedFileType"), files, << >>)
        ELSE IF ~ is_auto_processable(parsed.val.file_type)
             THEN Outcome(Err("UnsupportedFileType"), files, << >>)
        ELSE IF ~ generate_name(file_path, parsed.val).ok
             THEN Outcome(generate_name(file_path, parsed.val), files, << >>)
        ELSE
        LET metadata == parsed.val
            new_name == generate_name(file_path, metadata).val
            temp_path == with_file_name(file_path, new_name)
            renamed == IF file_path # temp_path
                       THEN rename_file(files, file_path, temp_path, io = "rename")
                       ELSE [result |-> Ok("unit"), files |-> files]
            ops1 == IF file_path # temp_path
                    THEN <<FsOp("rename", file_path, temp_path)>>
                    ELSE << >>
        IN  IF ~ renamed.result.ok THEN Outcome(renamed.result, files, ops1)
            ELSE
            LET files1 == renamed.files
                base_path == resolve_base_path(metadata.file_type, cfg)
                target_dir == determine_target_directory(metadata, base_path)
            IN  IF ~ target_dir.ok THEN Outcome(target_dir, files1, ops1)
                ELSE
                LET target_path == join(target_dir.val, new_name)
                    exists == file_exists(files1, target_path)
                    resolved == IF exists
                                THEN handle_duplicate(files1, cfg, temp_path, target_path,
                                                      io = "hash")
                                ELSE Ok(target_path)
                    ops2 == ops1 \o <<FsOp("exists", target_path, target_path)>>
                            \o (IF exists /\ cfg.handle_duplicates = "AppendHash"
                                THEN <<FsOp("hash", temp_path, temp_path)>>
                                ELSE << >>)
                IN  IF ~ resolved.ok THEN Outcome(resolved, files1, ops2)
                    ELSE
                    LET moved == move_file(files1, temp_path, resolved.val, io = "move")
                    IN  Outcome(moved.result, moved.files,
                                ops2 \o <<FsOp("move", temp_path, resolved.val)>>)

\* the match of process_directory on the Result of one file (processor.rs:101-114)
record_outcome(r, cfg, file_path, res) ==
    IF res.ok THEN process_file(r)
    ELSE IF should_skip_error(res.err)
         THEN IF ~ cfg.skip_unsupported_files
              THEN add_error(skip_file(r), ErrorMsg(file_path, res.err))
              ELSE skip_file(r)
    ELSE add_error(r, ErrorMsg(file_path, res.err))

\* the body of the for loop of process_directory for a regular file
\* (processor.rs:101-114)
loop_body(files, cfg, r, file_path, io) ==
    LET out == process_single_file(files, cfg, file_path, io)
    IN  [files |-> out.files,
         result |-> record_outcome(r, cfg, file_path, out.result),
         attempt |-> out]

(***************************************************************************)
(* tags.rs: TagDictionary::save_to_file                                    *)
(***************************************************************************)
\* str::split on a character code
RECURSIVE split_chars(_, _)
split_chars(s, sep) ==
    IF \E i \in 1..Len(s) : s[i] = sep
    THEN LET first == CHOOSE i \in 1..Len(s) :
                          s[i] = sep /\ \A j \in 1..(i - 1) : s[j] # sep
         IN  <<SubSeq(s, 1, first - 1)>> \o split_chars(SubSeq(s, first + 1, Len(s)), sep)
    ELSE <<s>>

\* [&str]::join("\n")
RECURSIVE join_newline(_)
join_newline(strs) ==
    IF strs = << >> THEN << >>
    ELSE IF Len(strs) = 1 THEN strs[1]
    ELSE strs[1] \o <<10>> \o join_newline(Tail(strs))

\* a content written without sorting the tags: in an order the HashSet gives
written_content_unsorted(tags) ==
    IF tags = {} THEN <<10>>
    ELSE LET least == CHOOSE x \in tags : \A y \in tags : StrLeq(x, y)
         IN  join_newline(SortStrings(tags \ {least}) \o <<least>>) \o <<10>>

\* tags.rs:44-47: the tags sorted, joined by "\n", and a final "\n"
written_content(tags) == join_newline(SortStrings(tags)) \o <<10>>

\* str::lines: the pieces between "\n", without the empty piece after a final "\n",
\* each without a "\r" at its end
str_lines(content) ==
    LET pieces == split_chars(content, 10)
        kept == IF pieces[Len(pieces)] = << >>
                THEN SubSeq(pieces, 1, Len(pieces) - 1) ELSE pieces
    IN  [i \in 1..Len(kept) |->
            IF kept[i] # << >> /\ kept[i][Len(kept[i])] = 13
            THEN SubSeq(kept[i], 1, Len(kept[i]) - 1) ELSE kept[i]]

\* a save that writes the file of an empty dictionary, whatever the tags
save_to_file_empty(tags, file, fails) ==
    IF fails THEN [result |-> Err("TagDictionaryCorrupted"), file |-> file]
    ELSE [result |-> Ok("unit"), file |-> FileOf(TRUE, str_lines(written_content({}))),
          content |-> written_content({})]

\* TagDictionary::save_to_file: the file afterwards, as the lines a reader finds in
\* it; the system may fail the write
save_to_file(tags, file, fails) ==
    IF fails THEN [result |-> Err("TagDictionaryCorrupted"), file |-> file]
    ELSE [result |-> Ok("unit"), file |-> FileOf(TRUE, str_lines(written_content(tags))),
          content |-> written_content(tags)]

(***************************************************************************)
(* document.rs: DocumentInput.  Dates, descriptions and tags are strings   *)
(* of character codes.                                                     *)
(***************************************************************************)
DocumentInput(date, description, tags) ==
    [date |-> date, description |-> description, tags |-> tags]

\* the value of a string of decimal digits
RECURSIVE DigitsValue(_)
DigitsValue(s) ==
    IF s = << >> THEN 0
    ELSE 10 * DigitsValue(SubSeq(s, 1, Len(s) - 1)) + (s[Len(s)] - 48)

\* str::parse::<u32> on the short strings of a date: an optional "+" and digits
parse_u32(s) ==
    LET digits == IF s # << >> /\ s[1] = 43 THEN Tail(s) ELSE s
    IN  IF digits = << >> \/ ~ \A i \in 1..Len(digits) : is_ascii_digit(digits[i])
        THEN None
        ELSE Some(DigitsValue(digits))

\* DocumentInput::validate_date
validate_date(input) ==
    LET parts == split_chars(input.date, 45)
    IN  IF Len(input.date) # 10 THEN Err("InvalidUserInput")
        ELSE IF Len(parts) # 3 THEN Err("InvalidUserInput")
        ELSE IF ~ parse_u32(parts[1]).some THEN Err("InvalidUserInput")
        ELSE IF ~ (parse_u32(parts[1]).val \in 1900..2100) THEN Err("InvalidUserInput")
        ELSE IF ~ parse_u32(parts[2]).some THEN Err("InvalidUserInput")
        ELSE IF ~ (parse_u32(parts[2]).val \in 1..12) THEN Err("InvalidUserInput")
        ELSE IF ~ parse_u32(parts[3]).some THEN Err("InvalidUserInput")
        ELSE IF ~ (parse_u32(parts[3]).val \in 1..31) THEN Err("InvalidUserInput")
        ELSE Ok("unit")

\* the checks without the one on consecutive hyphens
kebab_checks_no_consecutive(str) ==
    IF ~ \A i \in 1..Len(str) :
            is_ascii_lowercase(str[i]) \/ is_ascii_digit(str[i]) \/ str[i] = 45
    THEN Err("InvalidUserInput")
    ELSE IF starts_with(str, <<45>>) \/ ends_with(str, <<45>>) THEN Err("InvalidUserInput")
    ELSE Ok("unit")

\* the checks that validate_description and validate_tags make on one string
kebab_checks(str) ==
    IF ~ \A i \in 1..Len(str) :
            is_ascii_lowercase(str[i]) \/ is_ascii_digit(str[i]) \/ str[i] = 45
    THEN Err("InvalidUserInput")
    ELSE IF starts_with(str, <<45>>) \/ ends_with(str, <<45>>) THEN Err("InvalidUserInput")
    ELSE IF contains(str, <<45, 45>>) THEN Err("InvalidUserInput")
    ELSE Ok("unit")

\* DocumentInput::validate_description
validate_description(input) ==
    IF input.description = << >> THEN Err("InvalidUserInput")
    ELSE kebab_checks(input.description)

\* DocumentInput::validate_tags
validate_tags(input) ==
    IF input.tags = << >> THEN Err("InvalidUserInput")
    ELSE IF \E i \in 1..Len(input.tags) :
                input.tags[i] = << >> \/ ~ kebab_checks(input.tags[i]).ok
         THEN Err("InvalidUserInput")
    ELSE Ok("unit")

\* DocumentInput::validate
validate(input) ==
    IF ~ validate_date(input).ok THEN validate_date(input)
    ELSE IF ~ validate_description(input).ok THEN validate_description(input)
    ELSE validate_tags(input)

(***************************************************************************)
(* naming.rs, organization.rs: documents                                   *)
(***************************************************************************)
\* the printable ASCII characters, from the space on, one token each
AsciiTable ==
    <<" ", "!", "quote", "#", "$", "%", "&", "'", "(", ")", "*", "+", ",", "-", ".", "/",
      "0", "1", "2", "3", "4", "5", "6", "7", "8", "9", ":", ";", "<", "=", ">", "?",
      "@", "A", "B", "C", "D", "E", "F", "G", "H", "I", "J", "K", "L", "M", "N", "O",
      "P", "Q", "R", "S", "T", "U", "V", "W", "X", "Y", "Z", "[", "backslash", "]", "^", "_",
      "backtick", "a", "b", "c", "d", "e", "f", "g", "h", "i", "j", "k", "l", "m", "n", "o",
      "p", "q", "r", "s", "t", "u", "v", "w", "x", "y", "z", "{", "|", "}", "~">>

\* a string of character codes as the tokens of a file name, one per character
ToTokens(str) == [i \in 1..Len(str) |-> AsciiTable[str[i] - 31]]

\* [String]::join(",") as tokens
RECURSIVE join_tags(_)
join_tags(tags) ==
    IF tags = << >> THEN << >>
    ELSE IF Len(tags) = 1 THEN ToTokens(tags[1])
    ELSE ToTokens(tags[1]) \o <<",">> \o join_tags(Tail(tags))

\* a naming strategy that writes the tags in alphabetical order
generate_name_from_input_sorted(document_input, ext) ==
    IF ~ validate(document_input).ok THEN validate(document_input)
    ELSE Ok(ToTokens(document_input.date) \o <<"_">> \o ToTokens(document_input.description)
            \o <<"@", "@">>
            \o join_tags(SortStrings({document_input.tags[i] :
                                         i \in 1..Len(document_input.tags)}))
            \o <<".">> \o ext)

\* DocumentNamingStrategy::generate_name_from_input
generate_name_from_input(document_input, ext) ==
    IF ~ validate(document_input).ok THEN validate(document_input)
    ELSE Ok(ToTokens(document_input.date) \o <<"_">> \o ToTokens(document_input.description)
            \o <<"@", "@">> \o join_tags(document_input.tags) \o <<".">> \o ext)

\* DocumentOrganizer::determine_target_directory_from_input
determine_target_directory_from_input(document_input, base_path) ==
    LET date_parts == split_chars(document_input.date, 45)
    IN  IF Len(date_parts) # 3 THEN Err("InvalidDateTime")
        ELSE Ok(base_path \o <<ToTokens(date_parts[1]), ToTokens(date_parts[2])>>)

(***************************************************************************)
(* interactive.rs.  What the user and the console do at a prompt is a      *)
(* reply: a line, an error of the line editor (the console), or an error   *)
(* that a UserPrompt other than ReadlinePrompt returns.                    *)
(***************************************************************************)
Line(v) == [kind |-> "line", val |-> v]
Console(event) == [kind |-> "console", event |-> event]
Fails(err) == [kind |-> "fail", err |-> err]

ErrMsg(kind, msg) == [ok |-> FALSE, err |-> kind, msg |-> msg]

\* the arms of ReadlinePrompt and of prompt_tags for a ReadlineError
readline_error(event) ==
    CASE event = "Interrupted" -> ErrMsg("InvalidUserInput", "User interrupted input")
      [] event = "Eof" -> ErrMsg("InvalidUserInput", "End of input reached")
      [] OTHER -> ErrMsg("InvalidUserInput", "Readline error")

\* UserPrompt::prompt_string: the reply that ends its loop
prompt_string(reply) ==
    CASE reply.kind = "line" -> Ok(reply.val)
      [] reply.kind = "console" -> readline_error(reply.event)
      [] reply.kind = "fail" -> Err(reply.err)

\* a creation that answers with the tag and leaves the dictionary as it was
create_tag_not_stored(tags, tag, added) ==
    [result |-> IF added.result.ok THEN Ok(Some(tag)) ELSE added.result, tags |-> tags]

\* interactive.rs:489-491, 499-501: add_tag(input)?; Ok(Some(input))
create_tag(tags, tag, added) ==
    IF added.result.ok THEN [result |-> Ok(Some(tag)), tags |-> added.tags]
    ELSE [result |-> added.result, tags |-> tags]

\* the match of resolve_single_tag on the resolution of the tag.  The user creates
\* a tag that can be created when create holds, and else takes the first similar
\* tag or none.
match_resolution(tags, tag, create, resolution) ==
    CASE resolution.kind = "ExactMatch" ->
            [result |-> Ok(Some(resolution.tag)), tags |-> tags]
      [] resolution.kind = "SimilarFound" ->
            IF resolution.can_create /\ create
            THEN create_tag(tags, tag, add_tag(tags, tag))
            ELSE [result |-> Ok(Some(resolution.similar[1].tag)), tags |-> tags]
      [] resolution.kind = "NoMatch" ->
            IF resolution.can_create /\ create
            THEN create_tag(tags, tag, add_tag(tags, tag))
            ELSE [result |-> Ok(None), tags |-> tags]

\* SmartTagSelector::resolve_single_tag
resolve_single_tag(tags, tag, create) ==
    match_resolution(tags, tag, create, resolve_tag(tags, tag))

\* the for loop of prompt_tags over the tags of one input line; push_resolved is
\* its body once resolve_single_tag returned r
RECURSIVE resolve_line(_, _, _, _)
RECURSIVE push_resolved(_, _, _, _)
push_resolved(selected, input_tags, create, r) ==
    IF ~ r.result.ok THEN r
    ELSE IF r.result.val.some
            /\ ~ \E i \in 1..Len(selected) : selected[i] = r.result.val.val
         THEN resolve_line(r.tags, Append(selected, r.result.val.val),
                           Tail(input_tags), create)
    ELSE resolve_line(r.tags, selected, Tail(input_tags), create)

resolve_line(tags, selected, input_tags, create) ==
    IF input_tags = << >> THEN [result |-> Ok(selected), tags |-> tags]
    ELSE push_resolved(selected, input_tags, create,
                       resolve_single_tag(tags, Head(input_tags), create))

\* an end of the loop body that returns what was selected, were it nothing
add_more_tags_once(lines, create, r) == r

\* SmartTagSelector::prompt_tags.  lines are the replies of the line editor, one
\* per read, and the console is at its end after them; the user asks for more
\* tags as long as lines are left.  add_more_tags is the end of the loop body,
\* once the for loop returned r.
RECURSIVE prompt_tags(_, _, _, _)
RECURSIVE add_more_tags(_, _, _)
add_more_tags(lines, create, r) ==
    IF ~ r.result.ok THEN r
    ELSE IF r.result.val # << >> /\ Tail(lines) = << >> THEN r
    ELSE prompt_tags(r.tags, r.result.val, Tail(lines), create)

prompt_tags(tags, selected_tags, lines, create) ==
    IF lines = << >> THEN [result |-> readline_error("Eof"), tags |-> tags]
    ELSE IF Head(lines).kind = "console"
         THEN [result |-> readline_error(Head(lines).event), tags |-> tags]
    ELSE IF Head(lines).val = << >>
         THEN IF selected_tags = << >>
              THEN prompt_tags(tags, selected_tags, Tail(lines), create)
              ELSE [result |-> Ok(selected_tags), tags |-> tags]
    ELSE add_more_tags(lines, create,
                       resolve_line(tags, selected_tags, Head(lines).val, create))

\* interactive.rs:570-573: DocumentInput::new, input.validate()?, Ok(input)
validated_input(input, tags) ==
    [result |-> IF validate(input).ok THEN Ok(input) ELSE validate(input), tags |-> tags]

\* the ? of collect_input on the Results of its three prompts, in order
collected_input(tags, date, description, selected) ==
    IF ~ date.ok THEN [result |-> date, tags |-> tags]
    ELSE IF ~ description.ok THEN [result |-> description, tags |-> tags]
    ELSE IF ~ selected.result.ok THEN selected
    ELSE validated_input(DocumentInput(date.val, description.val, selected.result.val),
                         selected.tags)

\* DocumentInputCollector::collect_input: the Result and the dictionary afterwards
collect_input(tags, script) ==
    collected_input(tags, prompt_string(script.date), prompt_string(script.description),
                    prompt_tags(tags, << >>, script.lines, script.create))

(***************************************************************************)
(* config.rs: LifeConfig                                                   *)
(***************************************************************************)
inbox_path(life_config) == life_config.life_path \o <<(<<"inbox">>)>>
media_root(life_config) == life_config.life_path \o <<(<<"media">>)>>
documents_root(life_config) == life_config.life_path \o <<(<<"documents">>)>>

to_processing_config(life_config) ==
    [inbox_path |-> inbox_path(life_config), media_root |-> media_root(life_config),
     hash_length |-> life_config.hash_length,
     handle_duplicates |-> life_config.handle_duplicates,
     skip_unsupported_files |-> life_config.skip_unsupported_files]

(***************************************************************************)
(* processor.rs: UnifiedProcessor                                          *)
(***************************************************************************)
NewUnifiedProcessingResult ==
    [media_processed |-> 0, documents_processed |-> 0, files_skipped |-> 0,
     files_failed |-> 0, errors |-> << >>]

NewCategorizedFiles ==
    [media_files |-> << >>, document_files |-> << >>, unknown_files |-> << >>]

\* UnifiedProcessor::categorize_files after read_directory returned file_paths
RECURSIVE categorize_files(_, _, _)
categorize_files(files, file_paths, so_far) ==
    IF file_paths = << >> THEN so_far
    ELSE LET file_path == Head(file_paths)
             parsed == parse_metadata(files, file_path)
             next ==
                 IF ~ is_file(files, file_path) THEN so_far
                 ELSE IF ~ parsed.ok
                      THEN [so_far EXCEPT !.unknown_files = Append(@, file_path)]
                 ELSE IF parsed.val.file_type \in {"Image", "Video"}
                      THEN [so_far EXCEPT !.media_files = Append(@, file_path)]
                 ELSE IF parsed.val.file_type = "Document"
                      THEN [so_far EXCEPT !.document_files = Append(@, file_path)]
                 ELSE [so_far EXCEPT !.unknown_files = Append(@, file_path)]
         IN  categorize_files(files, Tail(file_paths), next)

\* UnifiedProcessor::should_skip_media_error
should_skip_media_error(life_config, error) ==
    error \in {"UnsupportedFileType", "Exif"} /\ life_config.skip_unsupported_files

\* a match that counts the files moved and lets the failures go uncounted
record_media_outcome_uncounted(r, life_config, file_path, res) ==
    IF res.ok THEN [r EXCEPT !.media_processed = @ + 1] ELSE r

\* the match of process_media_files on the Result of one file (processor.rs:405-419)
record_media_outcome(r, life_config, file_path, res) ==
    IF res.ok THEN [r EXCEPT !.media_processed = @ + 1]
    ELSE [r EXCEPT !.files_failed = @ + 1,
                   !.errors = Append(@, ErrorMsg(file_path, res.err))]

\* UnifiedProcessor::handle_document_duplicate
handle_document_duplicate(files, life_config, source_path, target_path, hashFails) ==
    CASE life_config.handle_duplicates = "Skip" -> Err("FileAlreadyExists")
      [] life_config.handle_duplicates = "Overwrite" -> Ok(target_path)
      [] life_config.handle_duplicates = "Error" -> Err("FileAlreadyExists")
      [] life_config.handle_duplicates = "AppendHash" ->
            LET hash == calculate_file_hash(files, source_path, hashFails)
            IN  IF ~ hash.ok THEN hash
                ELSE LET hash_suffix == generate_hash_suffix(hash.val, life_config.hash_length)
                         new_name == append_hash_to_filename(target_path.name, hash_suffix)
                     IN  IF ~ new_name.ok THEN new_name
                         ELSE Ok(with_file_name(target_path, new_name.val))

\* processor.rs:525-547: process_single_document after new_name and target_dir
file_document(files, life_config, file_path, io, new_name, target_dir) ==
    IF ~ new_name.ok THEN Outcome(new_name, files, << >>)
    ELSE IF ~ target_dir.ok THEN Outcome(target_dir, files, << >>)
    ELSE IF io = "mkdir" THEN Outcome(Err("Io"), files, << >>)
    ELSE
    LET target_path == join(target_dir.val, new_name.val)
        exists == file_exists(files, target_path)
        resolved == IF exists
                    THEN handle_document_duplicate(files, life_config, file_path,
                                                   target_path, io = "hash")
                    ELSE Ok(target_path)
        ops == <<FsOp("exists", target_path, target_path)>>
    IN  IF ~ resolved.ok THEN Outcome(resolved, files, ops)
        ELSE
        LET moved == move_file(files, file_path, resolved.val, io = "move")
        IN  Outcome(moved.result, moved.files,
                    ops \o <<FsOp("move", file_path, resolved.val)>>)

\* UnifiedProcessor::process_single_document; io names the file system call that
\* the operating system fails, if any
process_single_document(files, life_config, file_path, document_input, io) ==
    IF ~ extension(file_path.name).some
    THEN Outcome(Err("InvalidFileExtension"), files, << >>)
    ELSE file_document(files, life_config, file_path, io,
                       generate_name_from_input(document_input,
                                                extension(file_path.name).val),
                       determine_target_directory_from_input(document_input,
                                                             documents_root(life_config)))

\* a match that counts every error of collect_input as a failure and goes on
match_collect_error_counting_all(r, file_path, error) ==
    [result |-> [r EXCEPT !.files_failed = @ + 1,
                          !.errors = Append(@, ErrorMsg(file_path, error))],
     stop |-> FALSE]

\* the arms of process_document_files for an error of collect_input
\* (processor.rs:468-478): the new result, and whether the loop is left
match_collect_error(r, file_path, error) ==
    IF error = "UserCancelled" THEN [result |-> r, stop |-> TRUE]
    ELSE [result |-> [r EXCEPT !.files_failed = @ + 1,
                               !.errors = Append(@, ErrorMsg(file_path, error))],
          stop |-> FALSE]

\* processor.rs:481-496: the match on the Result of process_single_document
match_processed(r, file_path, collected, processed) ==
    [files |-> processed.files, tags |-> collected.tags,
     result |-> IF processed.result.ok
                THEN [r EXCEPT !.documents_processed = @ + 1]
                ELSE [r EXCEPT !.files_failed = @ + 1,
                               !.errors = Append(@, ErrorMsg(file_path,
                                                             processed.result.err))],
     stop |-> FALSE, collected |-> collected.result,
     outcome |-> processed.result, ops |-> processed.ops]

\* processor.rs:466-496: the match on the Result of collect_input, and what follows
match_collected(files, life_config, r, file_path, io, collected) ==
    IF ~ collected.result.ok
    THEN [files |-> files, tags |-> collected.tags,
          result |-> match_collect_error(r, file_path, collected.result.err).result,
          stop |-> match_collect_error(r, file_path, collected.result.err).stop,
          collected |-> collected.result, outcome |-> collected.result, ops |-> << >>]
    ELSE match_processed(r, file_path, collected,
                         process_single_document(files, life_config, file_path,
                                                 collected.result.val, io))

\* the body of the for loop of process_document_files (processor.rs:458-497)
document_loop_body(files, life_config, tags, r, file_path, script, io) ==
    match_collected(files, life_config, r, file_path, io, collect_input(tags, script))

\* process_life_directory loads the dictionary for an empty document bucket too
runs_document_phase_always(categorized_files) == TRUE

\* processor.rs:322-326: the document phase runs for a non-empty document bucket
runs_document_phase(categorized_files) == categorized_files.document_files # << >>

(***************************************************************************)
(* The dictionary as an object: calls on it, one action per call.          *)
(***************************************************************************)
NoOp == [name |-> "none"]

TagsIdle ==
    /\ dict = {}
    /\ op = NoOp

DirIdle ==
    /\ fs = << >>
    /\ fs0 = << >>
    /\ config = << >>
    /\ dpc = "idle"
    /\ listing = [state |-> "unread"]
    /\ idx = 1
    /\ result = NewProcessingResult
    /\ ret = None
    /\ dlog = << >>

LifeIdle ==
    /\ lpc = "idle"
    /\ categorized = NewCategorizedFiles
    /\ uresult = NewUnifiedProcessingResult
    /\ llog = << >>
    /\ tagsFile = FileOf(FALSE, << >>)
    /\ tagIo = << >>

TagsInit == TagsIdle /\ DirIdle /\ LifeIdle

FileContents ==
    {FileOf(TRUE, l) : l \in UNION {[1..k -> Lines] : k \in 0..MaxLines}}
        \cup {FileOf(FALSE, << >>)}

\* the dictionaries of at most MaxDict tags that add_tag and load_from_file build
Dictionaries ==
    {S \in SUBSET {t \in Strings : validate_tag_format(t).ok} : Cardinality(S) <= MaxDict}

\* a dictionary on which one call is made
DictInit ==
    /\ dict \in Dictionaries
    /\ op = NoOp
    /\ DirIdle
    /\ LifeIdle

AddTag(tag) ==
    /\ op.name = "none"
    /\ dict' = add_tag(dict, tag).tags
    /\ op' = [name |-> "add_tag", tag |-> tag, before |-> dict,
              result |-> add_tag(dict, tag).result]
    /\ UNCHANGED <<dirVars, lifeVars>>

FindSimilar(query, max_results) ==
    /\ op.name = "none"
    /\ op' = [name |-> "find_similar", query |-> query, max_results |-> max_results,
              result |-> find_similar(dict, query, max_results)]
    /\ UNCHANGED <<dict, dirVars, lifeVars>>

ResolveTag(input) ==
    /\ op.name = "none"
    /\ op' = [name |-> "resolve_tag", input |-> input, before |-> dict,
              result |-> resolve_tag(dict, input)]
    /\ UNCHANGED <<dict, dirVars, lifeVars>>

\* TagDictionary::load_from_file is a constructor: the dictionary is the one it returns,
\* and none (here the empty one) when it fails.
LoadFromFile(file) ==
    /\ op.name = "none"
    /\ op' = [name |-> "load_from_file", file |-> file, result |-> load_from_file(file)]
    /\ dict' = IF load_from_file(file).ok THEN load_from_file(file).val ELSE {}
    /\ UNCHANGED <<dirVars, lifeVars>>

\* TagDictionary::save_to_file on the tags file
SaveToFile(fails) ==
    /\ op.name = "none"
    /\ tagsFile' = save_to_file(dict, tagsFile, fails).file
    /\ op' = [name |-> "save_to_file", before |-> dict,
              saved |-> save_to_file(dict, tagsFile, fails)]
    /\ UNCHANGED <<dict, dirVars, lpc, categorized, uresult, llog, tagIo>>

\* TagDictionary::load_from_file on the path that was just written
LoadSaved ==
    /\ op.name = "save_to_file"
    /\ op.saved.result.ok
    /\ op' = [name |-> "load_saved", before |-> op.before, content |-> op.saved.content,
              result |-> load_from_file(tagsFile)]
    /\ dict' = IF load_from_file(tagsFile).ok THEN load_from_file(tagsFile).val ELSE {}
    /\ UNCHANGED <<dirVars, lifeVars>>

\* one call is made on the dictionary, and a file that was saved is loaded
TagsNext ==
    \/ \E tag \in Strings : AddTag(tag)
    \/ \E query \in Strings, max_results \in 0..MaxResults : FindSimilar(query, max_results)
    \/ \E input \in Strings : ResolveTag(input)
    \/ \E fails \in BOOLEAN : SaveToFile(fails)
    \/ LoadSaved

SpecTags == DictInit /\ [][TagsNext]_vars

\* one tags file is loaded
TagFileNext == op.name = "none" /\ \E file \in FileContents : LoadFromFile(file)

SpecTagFile == TagsInit /\ [][TagFileNext]_vars

(***************************************************************************)
(* FileProcessor::process_directory over an inbox.                         *)
(***************************************************************************)
LifeDir == <<(<<"life">>)>>
InboxDir == LifeDir \o <<(<<"inbox">>)>>
MediaRoot == LifeDir \o <<(<<"media">>)>>

\* capture datetimes as RexifParser::format_datetime writes them; the second one
\* comes from an EXIF value without a month
DateTime1 == <<"2023", "-", "12", "-", "01", "_", "14", "-", "30", "-", "00">>
DateTimeNoMonth == <<"2023", "_", "10">>

InboxNames ==
    { <<"a", ".", "jpg">>, <<"b">>, DateTime1 \o <<".", "jpg">> }

InboxEntries ==
    { FileEntry(1, "Ok", <<"image/", "jpeg">>, Some(DateTime1)),
      FileEntry(2, "Ok", <<"video/", "mp4">>, Some(DateTime1)),
      FileEntry(3, "Ok", <<"IMAGE/", "PNG">>, None),
      FileEntry(4, "Ok", <<"application/pdf">>, None),
      FileEntry(5, "Io", << >>, None),
      FileEntry(6, "Ok", <<"application/octet-stream">>, None),
      FileEntry(7, "Ok", <<"image/", "jpeg">>, Some(DateTimeNoMonth)),
      DirEntry }

\* the inboxes of at most MaxFiles entries: file name -> entry
Inboxes ==
    UNION { [N -> InboxEntries] : N \in {S \in SUBSET InboxNames : Cardinality(S) <= MaxFiles} }

ArchivePath1 == PathOf(MediaRoot \o <<(<<"2023">>), (<<"12">>)>>, DateTime1 \o <<".", "jpg">>)

ArchivePath1Hashed ==
    PathOf(MediaRoot \o <<(<<"2023">>), (<<"12">>)>>,
           DateTime1 \o <<"_", "a", "1", "b", "2", "c", "3", ".", "jpg">>)

\* what the archive holds before the run: nothing, a file at the target of
\* DateTime1, or also a file at the target with the hash of the bytes 1 appended
Archives ==
    { << >>,
      [p \in {ArchivePath1} |-> FileEntry(1, "Ok", <<"image/", "jpeg">>, Some(DateTime1))],
      [p \in {ArchivePath1, ArchivePath1Hashed} |->
          FileEntry(1, "Ok", <<"image/", "jpeg">>, Some(DateTime1))] }

MakeFs(inbox, archive) ==
    [p \in {PathOf(InboxDir, n) : n \in DOMAIN inbox} \cup DOMAIN archive |->
        IF p \in DOMAIN archive THEN archive[p] ELSE inbox[p.name]]

DuplicateHandlings == {"Skip", "AppendHash", "Overwrite", "Error"}

DefaultHashLength == 6

\* ProcessingConfig::new with with_duplicate_handling and skip_unsupported
ProcessingConfigs ==
    { [inbox_path |-> InboxDir, media_root |-> MediaRoot,
       hash_length |-> DefaultHashLength, handle_duplicates |-> h,
       skip_unsupported_files |-> s] : h \in DuplicateHandlings, s \in BOOLEAN }

\* the orders in which read_dir can list a set of paths
Orders(S) ==
    {seq \in [1..Cardinality(S) -> S] : \A i, j \in 1..Cardinality(S) : i # j => seq[i] # seq[j]}

IoFailures == {"none", "rename", "hash", "move"}

DirInit ==
    /\ TagsIdle
    /\ LifeIdle
    /\ fs \in {MakeFs(inbox, archive) : inbox \in Inboxes, archive \in Archives}
    /\ fs0 = fs
    /\ config \in ProcessingConfigs
    /\ dpc = "start"
    /\ listing = [state |-> "unread"]
    /\ idx = 1
    /\ result = NewProcessingResult
    /\ ret = None
    /\ dlog = << >>

\* processor.rs:94: read_directory fails and process_directory returns its error
DirReadFails ==
    /\ dpc = "start"
    /\ listing' = [state |-> "failed"]
    /\ ret' = Some(Err("Io"))
    /\ dpc' = "done"
    /\ UNCHANGED <<fs, fs0, config, idx, result, dlog, tagVars, lifeVars>>

\* processor.rs:94: read_directory returns the paths of the inbox
DirRead(paths) ==
    /\ dpc = "start"
    /\ listing' = [state |-> "ok", paths |-> paths]
    /\ dpc' = "loop"
    /\ UNCHANGED <<fs, fs0, config, idx, result, ret, dlog, tagVars, lifeVars>>

\* processor.rs:97-99: an entry that is no regular file is passed over
DirSkipEntry ==
    /\ dpc = "loop"
    /\ idx <= Len(listing.paths)
    /\ ~ is_file(fs, listing.paths[idx])
    /\ dlog' = Append(dlog, [index |-> idx, path |-> listing.paths[idx], regular |-> FALSE])
    /\ idx' = idx + 1
    /\ UNCHANGED <<fs, fs0, config, dpc, listing, result, ret, tagVars, lifeVars>>

\* processor.rs:101-114: a regular file is processed and the result recorded
DirProcessEntry(io) ==
    /\ dpc = "loop"
    /\ idx <= Len(listing.paths)
    /\ is_file(fs, listing.paths[idx])
    /\ \E body \in {loop_body(fs, config, result, listing.paths[idx], io)} :
           /\ fs' = body.files
           /\ result' = body.result
           /\ dlog' = Append(dlog, [index |-> idx, path |-> listing.paths[idx],
                                    regular |-> TRUE, result |-> body.attempt.result,
                                    ops |-> body.attempt.ops,
                                    before |-> result, after |-> body.result])
    /\ idx' = idx + 1
    /\ UNCHANGED <<fs0, config, dpc, listing, ret, tagVars, lifeVars>>

\* processor.rs:117
DirReturn ==
    /\ dpc = "loop"
    /\ idx > Len(listing.paths)
    /\ ret' = Some(Ok(result))
    /\ dpc' = "done"
    /\ UNCHANGED <<fs, fs0, config, listing, idx, result, dlog, tagVars, lifeVars>>

DirNext ==
    \/ DirReadFails
    \/ \E paths \in Orders(DirectoryPaths(fs, config.inbox_path)) : DirRead(paths)
    \/ DirSkipEntry
    \/ \E io \in IoFailures : DirProcessEntry(io)
    \/ DirReturn

SpecDir == DirInit /\ [][DirNext]_vars

(***************************************************************************)
(* UnifiedProcessor::process_life_directory over an inbox, a tags file and *)
(* a user at the console.                                                  *)
(***************************************************************************)
LifeEntries ==
    { FileEntry(1, "Ok", <<"image/", "jpeg">>, Some(DateTime1)),
      FileEntry(3, "Ok", <<"IMAGE/", "PNG">>, None),
      FileEntry(4, "Ok", <<"application/pdf">>, None),
      FileEntry(6, "Ok", <<"application/octet-stream">>, None),
      DirEntry }

LifeInboxes ==
    UNION { [N -> LifeEntries] : N \in {S \in SUBSET InboxNames : Cardinality(S) <= MaxFiles} }

\* LifeConfig::new with with_duplicate_handling and skip_unsupported
LifeConfigs ==
    { [life_path |-> LifeDir, hash_length |-> DefaultHashLength,
       handle_duplicates |-> h, skip_unsupported_files |-> s] :
         h \in DuplicateHandlings, s \in BOOLEAN }

\* tags files: unreadable, empty, the tag "ab", and a line that is no tag ("A")
TagsFiles ==
    { FileOf(FALSE, << >>), FileOf(TRUE, << >>), FileOf(TRUE, <<(<<97, 98>>)>>),
      FileOf(TRUE, <<(<<65>>)>>) }

\* "2024-03-15" and "invoice"
Date1 == <<50, 48, 50, 52, 45, 48, 51, 45, 49, 53>>
Description1 == <<105, 110, 118, 111, 105, 99, 101>>

\* what the user types at the tags prompt: "a", "ab, b", or an interrupt
TagLines ==
    { <<Line(<<(<<97>>)>>)>>, <<Line(<<(<<97, 98>>), (<<98>>)>>)>>,
      <<Console("Interrupted")>> }

Script(date, description, lines, create) ==
    [date |-> date, description |-> description, lines |-> lines, create |-> create]

\* what can happen at the prompts of one document
DocScripts ==
    { Script(Line(Date1), Line(Description1), l, c) : l \in TagLines, c \in BOOLEAN }
    \cup { Script(d, Line(Description1), <<Console("Eof")>>, FALSE) :
              d \in {Console("Interrupted"), Fails("UserCancelled")} }
    \cup { Script(Line(Date1), d, <<Console("Eof")>>, FALSE) :
              d \in {Console("Interrupted"), Fails("UserCancelled")} }

DocIoFailures == {"none", "mkdir", "hash", "move"}

\* a script and the file system call that fails while its document is filed
DocSteps ==
    { step \in [script : DocScripts, io : DocIoFailures] :
        step.io = "none"
        \/ (step.script.date.kind = "line" /\ step.script.description.kind = "line") }

LifeInit ==
    /\ op = NoOp
    /\ dict = {}
    /\ fs \in {MakeFs(inbox, << >>) : inbox \in LifeInboxes}
    /\ fs0 = fs
    /\ config \in LifeConfigs
    /\ tagsFile \in TagsFiles
    /\ dpc = "idle"
    /\ listing = [state |-> "unread"]
    /\ idx = 1
    /\ result = NewProcessingResult
    /\ ret = None
    /\ dlog = << >>
    /\ lpc = "scan"
    /\ categorized = NewCategorizedFiles
    /\ uresult = NewUnifiedProcessingResult
    /\ llog = << >>
    /\ tagIo = << >>

dirOnly == <<dpc, listing, result, dlog, op, fs0, config>>

\* processor.rs:305, 345: read_directory fails and the run returns its error
LifeScanFails ==
    /\ lpc = "scan"
    /\ ret' = Some(Err("Io"))
    /\ lpc' = "done"
    /\ UNCHANGED <<dirOnly, dict, fs, idx, categorized, uresult, llog, tagsFile, tagIo>>

\* processor.rs:305: categorize_files
LifeScan(file_paths) ==
    /\ lpc = "scan"
    /\ categorized' = categorize_files(fs, file_paths, NewCategorizedFiles)
    /\ lpc' = "media"
    /\ UNCHANGED <<dirOnly, dict, fs, idx, ret, uresult, llog, tagsFile, tagIo>>

\* processor.rs:395-420: one iteration of the loop of process_media_files
LifeMediaFile(io) ==
    /\ lpc = "media"
    /\ idx <= Len(categorized.media_files)
    /\ \E out \in {process_single_file(fs, to_processing_config(config),
                                       categorized.media_files[idx], io)} :
           /\ fs' = out.files
           /\ uresult' = record_media_outcome(uresult, config,
                                              categorized.media_files[idx], out.result)
           /\ llog' = Append(llog, [phase |-> "media",
                                    path |-> categorized.media_files[idx],
                                    outcome |-> out.result, ops |-> out.ops,
                                    before |-> uresult, after |-> uresult'])
    /\ idx' = idx + 1
    /\ UNCHANGED <<dirOnly, dict, ret, lpc, categorized, tagsFile, tagIo>>

\* processor.rs:322-326, 336: without a document phase the run returns its result
LifeReturn ==
    /\ lpc = "media"
    /\ idx > Len(categorized.media_files)
    /\ ~ runs_document_phase(categorized)
    /\ uresult' = [uresult EXCEPT !.files_skipped = Len(categorized.unknown_files)]
    /\ ret' = Some(Ok(uresult'))
    /\ lpc' = "done"
    /\ UNCHANGED <<dirOnly, dict, fs, idx, categorized, llog, tagsFile, tagIo>>

\* processor.rs:447-448: the document phase starts by loading the dictionary
LifeLoadTags ==
    /\ lpc = "media"
    /\ idx > Len(categorized.media_files)
    /\ runs_document_phase(categorized)
    /\ tagIo' = Append(tagIo, [op |-> "load", handled |-> 0,
                               ok |-> load_from_file(tagsFile).ok])
    /\ IF load_from_file(tagsFile).ok
       THEN /\ dict' = load_from_file(tagsFile).val
            /\ lpc' = IF categorized.document_files = << >> THEN "save" ELSE "docs"
            /\ idx' = 1
            /\ ret' = ret
       ELSE /\ ret' = Some(load_from_file(tagsFile))
            /\ lpc' = "done"
            /\ UNCHANGED <<dict, idx>>
    /\ UNCHANGED <<dirOnly, fs, categorized, uresult, llog, tagsFile>>

\* processor.rs:458-497: one iteration of the loop of process_document_files
LifeDocument(script, io) ==
    /\ lpc = "docs"
    /\ idx <= Len(categorized.document_files)
    /\ \E body \in {document_loop_body(fs, config, dict, uresult,
                                        categorized.document_files[idx], script, io)} :
           /\ fs' = body.files
           /\ dict' = body.tags
           /\ uresult' = body.result
           /\ llog' = Append(llog, [phase |-> "doc",
                                    path |-> categorized.document_files[idx],
                                    collected |-> body.collected,
                                    outcome |-> body.outcome, ops |-> body.ops,
                                    tags_before |-> dict, tags_after |-> body.tags,
                                    before |-> uresult, after |-> body.result])
           /\ lpc' = IF body.stop \/ idx + 1 > Len(categorized.document_files)
                     THEN "save" ELSE "docs"
    /\ idx' = idx + 1
    /\ UNCHANGED <<dirOnly, ret, categorized, tagsFile, tagIo>>

\* processor.rs:500-503, 328-337: the dictionary is saved and the run returns
LifeSaveTags(fails) ==
    /\ lpc = "save"
    /\ LET saved == save_to_file(dict, tagsFile, fails)
       IN  /\ tagsFile' = saved.file
           /\ tagIo' = Append(tagIo, [op |-> "save", handled |-> idx - 1,
                                      ok |-> saved.result.ok])
           /\ IF saved.result.ok
              THEN /\ uresult' = [uresult EXCEPT
                                     !.files_skipped = Len(categorized.unknown_files)]
                   /\ ret' = Some(Ok(uresult'))
              ELSE /\ uresult' = uresult
                   /\ ret' = Some(saved.result)
    /\ lpc' = "done"
    /\ UNCHANGED <<dirOnly, dict, fs, idx, categorized, llog>>

LifeNext ==
    \/ LifeScanFails
    \/ \E file_paths \in Orders(DirectoryPaths(fs, inbox_path(config))) : LifeScan(file_paths)
    \/ \E io \in IoFailures : LifeMediaFile(io)
    \/ LifeReturn
    \/ LifeLoadTags
    \/ \E step \in DocSteps : LifeDocument(step.script, step.io)
    \/ \E fails \in BOOLEAN : LifeSaveTags(fails)

SpecLife == LifeInit /\ [][LifeNext]_vars

(***************************************************************************)
(* A session on one dictionary: calls of add_tag, load_from_file and of    *)
(* the resolution of a typed tag, one after the other.                     *)
(***************************************************************************)
\* interactive.rs:463-514: a typed tag is resolved; the user creates it or not.  The
\* dictionary holds at most MaxDict tags.
ResolveSingleTag(input, create) ==
    /\ op.name = "none"
    /\ \E r \in {resolve_single_tag(dict, input, create)} :
           /\ Cardinality(r.tags) <= MaxDict
           /\ dict' = r.tags
           /\ op' = [name |-> "resolve_single_tag", input |-> input, before |-> dict,
                     result |-> r.result]
    /\ UNCHANGED <<dirVars, lifeVars>>

\* what the user types at the tags prompt of a session: nothing, "A" (no tag
\* and not to be made one), "a, a", "b, a", or an interrupt
PromptReplies ==
    { Line(<< >>), Line(<<(<<65>>)>>), Line(<<(<<97>>), (<<97>>)>>),
      Line(<<(<<98>>), (<<97>>)>>), Console("Interrupted") }

\* the replies of one call of prompt_tags: one or two of them, or an empty line
\* and a line with "A" before a third
PromptLines ==
    UNION {[1..k -> PromptReplies] : k \in 1..2}
        \cup { <<Line(<< >>), Line(<<(<<65>>)>>), l>> : l \in PromptReplies }

\* SmartTagSelector::prompt_tags on the dictionary of the session
PromptTags(lines, create) ==
    /\ op.name = "none"
    /\ \E r \in {prompt_tags(dict, << >>, lines, create)} :
           /\ Cardinality(r.tags) <= MaxDict
           /\ dict' = r.tags
           /\ op' = [name |-> "prompt_tags", lines |-> lines, create |-> create,
                     before |-> dict, result |-> r.result]
    /\ UNCHANGED <<dirVars, lifeVars>>

\* the call has returned and the next one can be made
CallReturns ==
    /\ op.name # "none"
    /\ op' = NoOp
    /\ UNCHANGED <<dict, dirVars, lifeVars>>

\* the dictionary holds at most MaxDict tags
SessionNext ==
    \/ \E tag \in Strings :
            /\ op.name = "none"
            /\ Cardinality(add_tag(dict, tag).tags) <= MaxDict
            /\ AddTag(tag)
    \/ \E file \in TagsFiles : LoadFromFile(file)
    \/ \E input \in Strings, create \in BOOLEAN : ResolveSingleTag(input, create)
    \/ \E lines \in PromptLines, create \in BOOLEAN : PromptTags(lines, create)
    \/ CallReturns

SpecSession == TagsInit /\ [][SessionNext]_vars

(***************************************************************************)
(* Duplicate resolution: handle_duplicate and handle_document_duplicate    *)
(* called on a target path, and one file taken through each pipeline,      *)
(* over a life directory whose archive may hold the target already.        *)
(***************************************************************************)
\* the DocumentInput of the document pipeline here: 2024-03-15, invoice, [a]
DupInput == DocumentInput(Date1, Description1, <<(<<97>>)>>)

\* inputs handed to process_single_document: DupInput, two tags not in
\* alphabetical order, the dates "2024-3-015", "2024/03/15" and "2024-13-15", the
\* description "-i", the tag "A", and no tag
DupInputs ==
    { DupInput,
      DocumentInput(Date1, Description1, <<(<<98>>), (<<97>>)>>),
      DocumentInput(<<50, 48, 50, 52, 45, 51, 45, 48, 49, 53>>, Description1, <<(<<97>>)>>),
      DocumentInput(<<50, 48, 50, 52, 47, 48, 51, 47, 49, 53>>, Description1, <<(<<97>>)>>),
      DocumentInput(<<50, 48, 50, 52, 45, 49, 51, 45, 49, 53>>, Description1, <<(<<97>>)>>),
      DocumentInput(Date1, <<45, 105>>, <<(<<97>>)>>),
      DocumentInput(Date1, Description1, <<(<<65>>)>>),
      DocumentInput(Date1, Description1, << >>) }

\* where the document pipeline files a .jpg document with DupInput
DocArchivePath1 ==
    PathOf(determine_target_directory_from_input(DupInput, documents_root(
               [life_path |-> LifeDir])).val,
           generate_name_from_input(DupInput, <<"jpg">>).val)

\* the files handed to a pipeline: an image, a video, a document, an image without
\* capture datetime, a file whose metadata cannot be parsed, a file of no known
\* type, an image whose capture datetime has no month, and a document for which
\* the parser (a MetadataParser other than RexifParser) gives a capture datetime
DupEntries ==
    { FileEntry(1, "Ok", <<"image/", "jpeg">>, Some(DateTime1)),
      FileEntry(2, "Ok", <<"video/", "mp4">>, Some(DateTime1)),
      FileEntry(4, "Ok", <<"application/pdf">>, None),
      FileEntry(3, "Ok", <<"IMAGE/", "PNG">>, None),
      FileEntry(5, "Io", << >>, None),
      FileEntry(6, "Ok", <<"application/octet-stream">>, None),
      FileEntry(7, "Ok", <<"image/", "jpeg">>, Some(DateTimeNoMonth)),
      FileEntry(8, "Ok", <<"application/pdf">>, Some(DateTime1)) }

\* inboxes of one file, and inboxes where a directory or another file has the name
\* the media pipeline renames a.jpg to
DupInboxes ==
    UNION { [{n} -> DupEntries] : n \in InboxNames }
    \cup { [n \in {<<"a", ".", "jpg">>, DateTime1 \o <<".", "jpg">>} |->
               IF n = <<"a", ".", "jpg">> THEN e ELSE other] :
           e \in DupEntries,
           other \in {DirEntry, FileEntry(6, "Ok", <<"application/octet-stream">>, None)} }

\* archives: those of the media pipeline, and one that holds the document target
DupArchives ==
    Archives \cup { [p \in {DocArchivePath1} |->
                        FileEntry(4, "Ok", <<"application/pdf">>, None)] }

\* with_hash_length: no character, the default, and more than a hash has
HashLengths == {0, DefaultHashLength, 9}

DupConfigs ==
    { [life_path |-> LifeDir, hash_length |-> n, handle_duplicates |-> h,
       skip_unsupported_files |-> TRUE] : h \in DuplicateHandlings, n \in HashLengths }

\* target paths handed to duplicate resolution: with an extension, with two dots,
\* without extension, a hidden file without extension, and the media target
DupTargets ==
    { PathOf(MediaRoot, n) : n \in { <<"t", ".", "jpg">>, <<"t", ".", "tar", ".", "gz">>,
                                     <<"t">>, <<".", "t">> } }
    \cup {ArchivePath1}

DupInit ==
    /\ TagsIdle
    /\ LifeIdle
    /\ fs \in {MakeFs(inbox, archive) : inbox \in DupInboxes, archive \in DupArchives}
    /\ fs0 = fs
    /\ config \in DupConfigs
    /\ dpc = "idle"
    /\ listing = [state |-> "unread"]
    /\ idx = 1
    /\ result = NewProcessingResult
    /\ ret = None
    /\ dlog = << >>

\* FileProcessor::handle_duplicate and UnifiedProcessor::handle_document_duplicate
\* on the same source and target
DupResolve(source_path, target_path, hashFails) ==
    /\ op' = [name |-> "handle_duplicate", source |-> source_path,
              target |-> target_path, hashFails |-> hashFails,
              media |-> handle_duplicate(fs, to_processing_config(config), source_path,
                                         target_path, hashFails),
              document |-> handle_document_duplicate(fs, config, source_path,
                                                     target_path, hashFails)]
    /\ UNCHANGED <<dict, dirVars, lifeVars>>

\* FileProcessor::process_single_file on the file of the inbox
DupMedia(file_path, io) ==
    /\ \E out \in {process_single_file(fs, to_processing_config(config), file_path, io)} :
           /\ fs' = out.files
           /\ op' = [name |-> "process_single_file", path |-> file_path, io |-> io,
                     out |-> out]
    /\ UNCHANGED <<dict, fs0, config, dpc, listing, idx, result, ret, dlog, lifeVars>>

\* UnifiedProcessor::process_single_document on the file of the inbox, when it is of
\* the document bucket, and the match of process_document_files on its Result
DupDocument(file_path, document_input, io) ==
    /\ parse_metadata(fs, file_path).ok
    /\ parse_metadata(fs, file_path).val.file_type = "Document"
    /\ \E out \in {process_single_document(fs, config, file_path, document_input, io)} :
           /\ fs' = out.files
           /\ op' = [name |-> "process_single_document", path |-> file_path, io |-> io,
                     input |-> document_input, out |-> out,
                     counted |-> match_processed(NewUnifiedProcessingResult, file_path,
                                                 [result |-> Ok(document_input),
                                                  tags |-> dict], out).result]
    /\ UNCHANGED <<dict, fs0, config, dpc, listing, idx, result, ret, dlog, lifeVars>>

DupNext ==
    \/ \E file_path \in DirectoryPaths(fs, inbox_path(config)), target_path \in DupTargets,
           hashFails \in BOOLEAN :
            /\ op.name = "none" /\ is_file(fs, file_path)
            /\ DupResolve(file_path, target_path, hashFails)
    \/ \E file_path \in DirectoryPaths(fs, inbox_path(config)), io \in IoFailures :
            /\ op.name = "none" /\ is_file(fs, file_path)
            /\ DupMedia(file_path, io)
    \/ \E file_path \in DirectoryPaths(fs, inbox_path(config)),
           document_input \in DupInputs, io \in DocIoFailures :
            /\ op.name = "none" /\ is_file(fs, file_path)
            /\ DupDocument(file_path, document_input, io)

SpecDup == DupInit /\ [][DupNext]_vars

(***************************************************************************)
(* What the user types, validated: one call of DocumentInput::validate_date *)
(* or of the two checks of the format of a tag.                            *)
(***************************************************************************)
MaxCandidateLen == 4     \* longest string checked as a tag

\* years, months and days as typed: 1899, 1900, 2024, 2100, 2101, 202, +2024, 20a4,
\* 02024; 00, 01, 12, 13, 1, +1, 001; 00, 01, 31, 32, 5, 015, +5 and nothing
TypedYears ==
    { <<49, 56, 57, 57>>, <<49, 57, 48, 48>>, <<50, 48, 50, 52>>, <<50, 49, 48, 48>>,
      <<50, 49, 48, 49>>, <<50, 48, 50>>, <<43, 50, 48, 50, 52>>, <<50, 48, 97, 52>>,
      <<48, 50, 48, 50, 52>> }
TypedMonths ==
    { <<48, 48>>, <<48, 49>>, <<49, 50>>, <<49, 51>>, <<49>>, <<43, 49>>, <<48, 48, 49>> }
TypedDays ==
    { <<48, 48>>, <<48, 49>>, <<51, 49>>, <<51, 50>>, <<53>>, <<48, 49, 53>>, <<43, 53>>,
      << >> }

\* the dates typed: the three parts, separated by "-" or by "/"
TypedDates ==
    { y \o <<s1>> \o m \o <<s2>> \o d :
        y \in TypedYears, m \in TypedMonths, d \in TypedDays, s1 \in {45, 47}, s2 \in {45, 47} }

\* the strings checked as tags: over "-", "1", "A", "a" and e with an acute accent
TagCandidates == StringsOver({45, 49, 65, 97, 233}, MaxCandidateLen)

ValidateDate(date) ==
    /\ op.name = "none"
    /\ op' = [name |-> "validate_date", date |-> date,
              result |-> validate_date(DocumentInput(date, Description1, <<(<<97>>)>>))]
    /\ UNCHANGED <<dict, dirVars, lifeVars>>

\* validate_tag_format on a string, and DocumentInput::validate_tags on the tags
\* "a" and that string
ValidateTag(tag) ==
    /\ op.name = "none"
    /\ op' = [name |-> "validate_tag_format", tag |-> tag,
              result |-> validate_tag_format(tag),
              in_input |-> validate_tags(DocumentInput(Date1, Description1,
                                                       <<(<<97>>), tag>>))]
    /\ UNCHANGED <<dict, dirVars, lifeVars>>

InputNext ==
    \/ \E date \in TypedDates : ValidateDate(date)
    \/ \E tag \in TagCandidates : ValidateTag(tag)

SpecInput == TagsInit /\ [][InputNext]_vars

(***************************************************************************)
(* Properties of FileProcessor::process_directory.                         *)
(***************************************************************************)
\* the iterations of the loop that attempted the path
AttemptsOf(path) == {i \in 1..Len(dlog) : dlog[i].path = path /\ dlog[i].regular}

\* C1: process_directory returns an error only when reading the listing fails;
\* once the listing is read, every regular file in it is attempted exactly once,
\* in listing order, whatever happened to the files before it, and the call
\* returns Ok(result).
C1_EveryRegularFileAttempted ==
    dpc = "done" =>
        /\ ret.some
        /\ ~ ret.val.ok <=> listing.state = "failed"
        /\ listing.state = "ok" =>
              /\ ret.val = Ok(result)
              /\ \A k \in 1..Len(listing.paths) :
                    is_file(fs0, listing.paths[k]) => AttemptsOf(listing.paths[k]) = {k}

\* C2: a failure with UnsupportedFileType or Exif increments skipped_files, and
\* its message is added to errors exactly when skip_unsupported_files is false;
\* a failure of any other kind increments failed_files, leaves skipped_files
\* alone and always adds its message to errors.
C2_SkippableAndFailed ==
    \A i \in 1..Len(dlog) :
        (dlog[i].regular /\ ~ dlog[i].result.ok) =>
            LET e == dlog[i].result.err
                msg == ErrorMsg(dlog[i].path, e)
                b == dlog[i].before
                a == dlog[i].after
            IN  /\ a.processed_files = b.processed_files
                /\ IF e \in {"UnsupportedFileType", "Exif"}
                   THEN /\ a.skipped_files = b.skipped_files + 1
                        /\ a.errors = IF config.skip_unsupported_files
                                       THEN b.errors ELSE Append(b.errors, msg)
                   ELSE /\ a.failed_files = b.failed_files + 1
                        /\ a.skipped_files = b.skipped_files
                        /\ a.errors = Append(b.errors, msg)
                /\ IF i < Len(dlog) THEN TRUE ELSE result = a

\* a run that does not skip silently has met a file without capture date and a
\* file whose move failed, and returned
C2_Witness ==
    /\ dpc = "done"
    /\ ~ config.skip_unsupported_files
    /\ \E i, j \in 1..Len(dlog) :
          /\ dlog[i].regular /\ dlog[i].result = Err("Exif")
          /\ dlog[j].regular /\ dlog[j].result = Err("Io")
    /\ result.skipped_files = 1
    /\ Len(result.errors) = 2

(***************************************************************************)
(* Properties of UnifiedProcessor::process_life_directory.                 *)
(***************************************************************************)
\* the iterations of the document loop
DocEntries == {i \in 1..Len(llog) : llog[i].phase = "doc"}

\* collect_input returned UserCancelled in iteration i
Cancelled(i) == llog[i].phase = "doc" /\ llog[i].collected = Err("UserCancelled")

\* the console user interrupted a prompt of iteration i
Interrupted(i) == llog[i].phase = "doc" /\ llog[i].collected = readline_error("Interrupted")

Loads == {k \in 1..Len(tagIo) : tagIo[k].op = "load"}
Saves == {k \in 1..Len(tagIo) : tagIo[k].op = "save"}

\* C3: in the media phase with skip_unsupported_files set, a file that fails with
\* UnsupportedFileType or Exif adds no entry to UnifiedProcessingResult.errors.
C3_SkippableMediaNotReported ==
    \A i \in 1..Len(llog) :
        ( /\ llog[i].phase = "media"
          /\ config.skip_unsupported_files
          /\ ~ llog[i].outcome.ok
          /\ llog[i].outcome.err \in {"UnsupportedFileType", "Exif"} )
        => llog[i].after.errors = llog[i].before.errors

\* C4 as stated: after UserCancelled no later document is handled, files_failed
\* and errors are unchanged, the dictionary is saved and the run returns Ok.
C4_CancelReturnsOk ==
    \A i \in 1..Len(llog) :
        Cancelled(i) =>
            /\ i = Len(llog)
            /\ llog[i].after = llog[i].before
            /\ uresult.files_failed = llog[i].before.files_failed
            /\ uresult.errors = llog[i].before.errors
            /\ lpc = "done" =>
                  /\ \E k \in Saves : tagIo[k].ok
                  /\ ret.val.ok

\* C4: after UserCancelled no later document is handled, files_failed and errors
\* are unchanged, the dictionary is written once more, and the run returns Ok
\* exactly when that write succeeds (else the error of the write).
C4_CancelStopsLoop ==
    \A i \in 1..Len(llog) :
        Cancelled(i) =>
            /\ i = Len(llog)
            /\ llog[i].after = llog[i].before
            /\ uresult.files_failed = llog[i].before.files_failed
            /\ uresult.errors = llog[i].before.errors
            /\ lpc = "done" =>
                  /\ Cardinality(Saves) = 1
                  /\ \A k \in Saves :
                        /\ tagIo[k].handled = Cardinality(DocEntries)
                        /\ ret.val.ok <=> tagIo[k].ok
                  /\ ret.val.ok =>
                        /\ ret.val.val.files_failed = llog[i].before.files_failed
                        /\ ret.val.val.errors = llog[i].before.errors
                  /\ ~ ret.val.ok => ret.val = Err("TagDictionaryCorrupted")

\* the first of two documents was cancelled, and the run returned Ok
C4_Witness ==
    /\ lpc = "done"
    /\ Len(categorized.document_files) = 2
    /\ Cardinality(DocEntries) = 1
    /\ \E i \in DocEntries : Cancelled(i)
    /\ ret.val.ok

\* C5: an interrupt of the console user at a prompt of a document stops the
\* document loop, and the interrupted document is not counted in files_failed.
C5_InterruptIsCancellation ==
    \A i \in 1..Len(llog) :
        Interrupted(i) =>
            /\ i = Len(llog)
            /\ llog[i].after.files_failed = llog[i].before.files_failed

\* C6: the tags file is read at most once and written at most once; a write
\* comes after every document the loop handles; a run with documents whose
\* dictionary loaded writes it exactly once before returning; a run without
\* documents neither reads nor writes it.
C6_DictionaryWrittenOnce ==
    /\ Cardinality(Loads) <= 1
    /\ Cardinality(Saves) <= 1
    /\ \A k \in Saves :
          /\ lpc = "done"
          /\ k = Len(tagIo)
          /\ tagIo[k].handled = Cardinality(DocEntries)
    /\ ( /\ lpc = "done"
         /\ categorized.document_files # << >>
         /\ \E k \in Loads : tagIo[k].ok )
       => Cardinality(Saves) = 1
    /\ categorized.document_files = << >> => tagIo = << >>

\* two documents were handled, one filed and one failed, and the dictionary
\* was written once
C6_Witness ==
    /\ lpc = "done"
    /\ Cardinality(DocEntries) = 2
    /\ \E i, j \in DocEntries :
          llog[i].outcome.ok /\ ~ llog[j].outcome.ok /\ ~ Cancelled(j)
    /\ Cardinality(Saves) = 1

(***************************************************************************)
(* Properties of the tag dictionary.                                       *)
(***************************************************************************)
\* the tag format rule, stated on the characters
IsKebabTag(s) ==
    /\ s # << >>
    /\ \A i \in 1..Len(s) : s[i] \in (97..122) \cup (48..57) \cup {45}
    /\ s[1] # 45
    /\ s[Len(s)] # 45
    /\ \A i \in 1..(Len(s) - 1) : ~ (s[i] = 45 /\ s[i + 1] = 45)

RECURSIVE levenshtein(_, _)
levenshtein(a, b) ==
    IF a = << >> THEN Len(b)
    ELSE IF b = << >> THEN Len(a)
    ELSE IF Head(a) = Head(b) THEN levenshtein(Tail(a), Tail(b))
    ELSE 1 + Min(levenshtein(Tail(a), Tail(b)),
                 Min(levenshtein(Tail(a), b), levenshtein(a, Tail(b))))

\* The similarity of spec section 4.6, as the fraction ScoreNum / ScoreDen:
\* 1 - levenshtein/maxlen, plus 0.5, 0.2 and 0.1 bonuses, capped at 1.
ScoreDen(query, tag) == 10 * Max(Len(query), Len(tag))

ScoreNum(query, tag) ==
    LET n == Max(Len(query), Len(tag))
        bonus == (IF starts_with(tag, query) THEN 5 ELSE 0)
                 + (IF contains(tag, <<45>> \o query) THEN 2 ELSE 0)
                 + (IF find(tag, query) \in 0..2 THEN 1 ELSE 0)
    IN  Min(10 * n - 10 * levenshtein(query, tag) + bonus * n, 10 * n)

ScoreAboveThreshold(query, tag) == 10 * ScoreNum(query, tag) > 3 * ScoreDen(query, tag)

ScoreGeq(query, t1, t2) ==
    ScoreNum(query, t1) * ScoreDen(query, t2) >= ScoreNum(query, t2) * ScoreDen(query, t1)

ResultTags(res) == {res[i].tag : i \in 1..Len(res)}

\* t1 comes before t2 in the order of find_similar: the tags that start with the query
\* first, alphabetically within each group
Precedes(query, t1, t2) ==
    \/ starts_with(t1, query) /\ ~ starts_with(t2, query)
    \/ /\ starts_with(t1, query) = starts_with(t2, query)
       /\ StrLess(t1, t2)

\* C7 (as claimed): load_from_file fails with TagDictionaryCorrupted whenever the
\* file cannot be read or a non-empty trimmed line of it is not a valid tag, and it
\* returns no dictionary then.
C7_LoadFailsCorrupted ==
    op.name = "load_from_file" =>
        LET f == op.file
            bad == \/ ~ f.readable
                   \/ \E i \in 1..Len(f.lines) :
                          trim(f.lines[i]) # << >> /\ ~ IsKebabTag(trim(f.lines[i]))
        IN  bad => /\ ~ op.result.ok
                   /\ op.result.err = "TagDictionaryCorrupted"
                   /\ dict = {}

C11_CreatedTagIsExactMatch ==
    /\ \A i \in DocEntries :
          /\ llog[i].tags_before \subseteq llog[i].tags_after
          /\ (i + 1) \in DocEntries => llog[i + 1].tags_before = llog[i].tags_after
          /\ i = Len(llog) => dict = llog[i].tags_after
    /\ lpc = "docs" =>
          \A t \in Strings :
              (t \notin dict /\ IsKebabTag(t)) =>
                  LET r == resolve_single_tag(dict, t, TRUE)
                  IN  /\ r.result = Ok(Some(t))
                      /\ r.tags = dict \cup {t}
                      /\ resolve_tag(r.tags, t).kind = "ExactMatch"
                      /\ \A c \in BOOLEAN :
                             resolve_single_tag(r.tags, t, c)
                                 = [result |-> Ok(Some(t)), tags |-> r.tags]

\* the first document created the tag "a" in an empty dictionary, and the second
\* document, whose user types "a" again, got it from a dictionary that has it
C11_Witness ==
    /\ lpc = "done"
    /\ \E i, j \in DocEntries :
          /\ j = i + 1
          /\ llog[i].tags_before = {}
          /\ <<97>> \in llog[i].tags_after
          /\ llog[j].tags_before = llog[i].tags_after
          /\ llog[j].collected.ok
          /\ llog[j].collected.val.tags = <<(<<97>>)>>
          /\ llog[j].tags_after = llog[j].tags_before

(***************************************************************************)
(* Properties of duplicate resolution.                                     *)
(***************************************************************************)
\* "{stem}_{first min(n, length of the hash) characters of the hash}.{ext}"
HashedName(name, hash, n) ==
    file_stem(name).val \o <<"_">> \o SubSeq(hash, 1, IF n < Len(hash) THEN n ELSE Len(hash))
        \o <<".">> \o extension(name).val

ProbesOf(ops) == {i \in 1..Len(ops) : ops[i].op = "exists"}
MovesOf(ops) == {i \in 1..Len(ops) : ops[i].op = "move"}

\* C12: duplicate resolution answers by policy: Skip and Error with
\* FileAlreadyExists, Overwrite with the target path itself, AppendHash(n) with the
\* path in the same directory named "{stem}_{first min(n, length) characters of the
\* hash of the source}.{ext}", which differs from the target, or with an error when
\* the target name has no extension (and with the error of the file manager when
\* the source cannot be read); the media and the document pipeline answer alike;
\* and a pipeline resolves a duplicate only when its target path exists: a free
\* target is never answered with FileAlreadyExists and is the path moved to.
C12_DuplicateTable ==
    /\ op.name = "handle_duplicate" =>
          LET r == op.media
              policy == config.handle_duplicates
          IN  /\ op.document = r
              /\ policy \in {"Skip", "Error"} => r = Err("FileAlreadyExists")
              /\ policy = "Overwrite" => r = Ok(op.target)
              /\ policy = "AppendHash" =>
                    IF op.hashFails THEN r = Err("Io")
                    ELSE IF extension(op.target.name) = None THEN ~ r.ok
                    ELSE /\ r.ok
                         /\ r.val.dir = op.target.dir
                         /\ r.val.name = HashedName(op.target.name,
                                                    HashOf(fs[op.source].cid),
                                                    config.hash_length)
                         /\ r.val # op.target
    /\ op.name \in {"process_single_file", "process_single_document"} =>
          LET ops == op.out.ops
              policy == config.handle_duplicates
          IN  \A i \in ProbesOf(ops) :
                  LET target == ops[i].to
                  IN  IF target \notin DOMAIN fs0
                      THEN /\ op.out.result # Err("FileAlreadyExists")
                           /\ \A k \in 1..Len(ops) : ops[k].op # "hash"
                           /\ \A k \in MovesOf(ops) : ops[k].to = target
                           /\ op.io = "none" => MovesOf(ops) # {}
                      ELSE /\ policy \in {"Skip", "Error"} =>
                                 /\ op.out.result = Err("FileAlreadyExists")
                                 /\ MovesOf(ops) = {}
                           /\ policy = "Overwrite" =>
                                 /\ MovesOf(ops) # {}
                                 /\ \A k \in MovesOf(ops) : ops[k].to = target
                           /\ policy = "AppendHash" =>
                                 IF op.io = "hash"
                                 THEN op.out.result = Err("Io") /\ MovesOf(ops) = {}
                                 ELSE /\ MovesOf(ops) # {}
                                      /\ \A k \in MovesOf(ops) :
                                            ops[k].to = PathOf(target.dir,
                                                HashedName(target.name,
                                                           HashOf(fs0[op.path].cid),
                                                           config.hash_length))

\* an image whose target exists was moved, under AppendHash(9), to the name with
\* all 8 characters of its hash, and the file that was at the target is still there
C12_Witness ==
    /\ op.name = "process_single_file"
    /\ config.handle_duplicates = "AppendHash"
    /\ config.hash_length = 9
    /\ op.out.result.ok
    /\ ArchivePath1 \in DOMAIN fs0
    /\ ArchivePath1 \in DOMAIN fs
    /\ PathOf(ArchivePath1.dir,
              DateTime1 \o <<"_">> \o HashOf(fs0[op.path].cid) \o <<".", "jpg">>)
           \in DOMAIN fs \ DOMAIN fs0

(***************************************************************************)
(* Properties of the media pipeline on one file.                           *)
(***************************************************************************)
\* YYYY-MM-DD_HH-MM-SS
IsCaptureDateTime(d) ==
    /\ Len(d) = 11
    /\ d[2] = "-" /\ d[4] = "-" /\ d[6] = "_" /\ d[8] = "-" /\ d[10] = "-"

\* media_root/YYYY/MM/D.ext
MediaTarget(d, ext) == PathOf(media_root(config) \o <<(<<d[1]>>), (<<d[3]>>)>>, d \o <<".">> \o ext)

\* C13: a regular inbox file classified Image or Video, with capture datetime
\* D = YYYY-MM-DD_HH-MM-SS and an extension ext, when nothing exists at the target
\* path and no call of the file manager fails by itself: the media pipeline
\* succeeds, the file is at media_root/YYYY/MM/D.ext, and the inbox has it neither
\* under its original name nor under the intermediate name D.ext.
C13_MediaFileArchived ==
    (/\ op.name = "process_single_file"
     /\ op.io = "none"
     /\ is_file(fs0, op.path)
     /\ parse_metadata(fs0, op.path).ok
     /\ parse_metadata(fs0, op.path).val.file_type \in {"Image", "Video"}
     /\ parse_metadata(fs0, op.path).val.datetime_original.some
     /\ IsCaptureDateTime(parse_metadata(fs0, op.path).val.datetime_original.val)
     /\ extension(op.path.name).some
     /\ MediaTarget(parse_metadata(fs0, op.path).val.datetime_original.val,
                    extension(op.path.name).val) \notin DOMAIN fs0)
    => LET d == parse_metadata(fs0, op.path).val.datetime_original.val
           ext == extension(op.path.name).val
           target == MediaTarget(d, ext)
       IN  /\ op.out.result.ok
           /\ target \in DOMAIN fs
           /\ fs[target] = fs0[op.path]
           /\ op.path \notin DOMAIN fs
           /\ PathOf(op.path.dir, d \o <<".">> \o ext) \notin DOMAIN fs

(***************************************************************************)
(* Properties of the document pipeline on one file.                        *)
(***************************************************************************)
\* t1,...,tn
RECURSIVE CommaSeparated(_)
CommaSeparated(tags) ==
    IF Len(tags) = 1 THEN ToTokens(tags[1])
    ELSE CommaSeparated(SubSeq(tags, 1, Len(tags) - 1)) \o <<",">> \o ToTokens(tags[Len(tags)])

\* documents_root/YYYY/MM/{date}_{description}@@{t1,...,tn}.{ext}, YYYY and MM being
\* the year and the month as the date has them
DocumentTarget(input, ext) ==
    PathOf(documents_root(config)
               \o <<ToTokens(split_chars(input.date, 45)[1]),
                    ToTokens(split_chars(input.date, 45)[2])>>,
           ToTokens(input.date) \o <<"_">> \o ToTokens(input.description) \o <<"@", "@">>
               \o CommaSeparated(input.tags) \o <<".">> \o ext)

\* C14: a document-bucket file with an extension ext and a DocumentInput that
\* validates, when nothing exists at the target path: the file is moved by one
\* move, with no rename in the inbox, to
\* documents_root/YYYY/MM/{date}_{description}@@{t1,...,tn}.{ext}, the tags in the
\* order of the input, and documents_processed increases by one (when the
\* creation of the directory or the move fails, the error is returned and nothing
\* has moved).  A DocumentInput that does not validate gives an error and no move.
C14_DocumentFiled ==
    op.name = "process_single_document" =>
        LET ops == op.out.ops
            ext == extension(op.path.name)
        IN  /\ ~ validate(op.input).ok =>
                  /\ ~ op.out.result.ok
                  /\ MovesOf(ops) = {}
                  /\ fs = fs0
                  /\ op.counted.documents_processed = 0
            /\ (/\ validate(op.input).ok
                /\ ext.some
                /\ DocumentTarget(op.input, ext.val) \notin DOMAIN fs0) =>
                  LET target == DocumentTarget(op.input, ext.val)
                  IN  IF op.io \notin {"mkdir", "move"}
                      THEN /\ op.out.result.ok
                           /\ \A k \in 1..Len(ops) : ops[k].op # "rename"
                           /\ Cardinality(MovesOf(ops)) = 1
                           /\ \A k \in MovesOf(ops) :
                                 ops[k].from = op.path /\ ops[k].to = target
                           /\ DOMAIN fs = (DOMAIN fs0 \ {op.path}) \cup {target}
                           /\ fs[target] = fs0[op.path]
                           /\ op.counted.documents_processed = 1
                           /\ op.counted.files_failed = 0
                      ELSE /\ ~ op.out.result.ok
                           /\ fs = fs0
                           /\ op.counted.documents_processed = 0

\* the document a.jpg was filed with the tags b, a in that order
C14_Witness ==
    /\ op.name = "process_single_document"
    /\ op.io = "none"
    /\ op.input.tags = <<(<<98>>), (<<97>>)>>
    /\ op.out.result.ok
    /\ op.counted.documents_processed = 1
    /\ PathOf(<<(<<"life">>), (<<"documents">>), <<"2", "0", "2", "4">>, <<"0", "3">>>>,
              <<"2", "0", "2", "4", "-", "0", "3", "-", "1", "5", "_",
                "i", "n", "v", "o", "i", "c", "e", "@", "@", "b", ",", "a", ".", "jpg">>)
          \in DOMAIN fs \ DOMAIN fs0

(***************************************************************************)
(* Properties of the validation of what the user types.                    *)
(***************************************************************************)
\* the number that the characters i..j of d write
RECURSIVE DecimalAt(_, _, _)
DecimalAt(d, i, j) == IF j < i THEN 0 ELSE 10 * DecimalAt(d, i, j - 1) + (d[j] - 48)

\* YYYY-MM-DD: four digits, a hyphen, two digits, a hyphen, two digits
HasDateShape(d) ==
    /\ Len(d) = 10
    /\ \A i \in {1, 2, 3, 4, 6, 7, 9, 10} : d[i] \in 48..57
    /\ d[5] = 45 /\ d[8] = 45

\* C15: validate_date succeeds exactly on the strings of the shape YYYY-MM-DD with
\* the year in 1900..2100, the month in 1..12 and the day in 1..31; a wrong
\* separator, a wrong number of digits in a part, or a part out of range fails.
C15_ValidateDateExact ==
    op.name = "validate_date" =>
        (op.result.ok <=>
            /\ HasDateShape(op.date)
            /\ DecimalAt(op.date, 1, 4) \in 1900..2100
            /\ DecimalAt(op.date, 6, 7) \in 1..12
            /\ DecimalAt(op.date, 9, 10) \in 1..31)

\* C19: validate_tag_format succeeds exactly on the strings that are not empty, have
\* only lowercase ASCII letters, digits and hyphens, neither begin nor end with a
\* hyphen and have no "--"; and DocumentInput validation accepts a string as a tag
\* exactly when validate_tag_format does.
C19_TagFormatRule ==
    op.name = "validate_tag_format" =>
        /\ op.result.ok <=> IsKebabTag(op.tag)
        /\ op.in_input.ok <=> op.result.ok

\* "a-1" is accepted by both checks, and "a--a" (checked as well) is of the length
\* at which only the rule on "--" refuses a string
C19_Witness ==
    /\ op.name = "validate_tag_format"
    /\ op.tag = <<97, 45, 49>>
    /\ op.result.ok
    /\ op.in_input.ok
    /\ <<97, 45, 45, 97>> \in TagCandidates
    /\ ~ IsKebabTag(<<97, 45, 45, 97>>)

(***************************************************************************)
(* Properties of the directories of the document archive.                  *)
(***************************************************************************)
DigitTokens == {"0", "1", "2", "3", "4", "5", "6", "7", "8", "9"}

\* 01..12
MonthNames ==
    { <<"0", d>> : d \in DigitTokens \ {"0"} } \cup { <<"1", "0">>, <<"1", "1">>, <<"1", "2">> }

\* C16: every document moved to the archive with a DocumentInput that validates is
\* placed in documents_root/YYYY/MM, YYYY being exactly four digits and MM exactly
\* two digits in 01..12.
C16_ArchiveDirectoryShape ==
    (/\ op.name = "process_single_document"
     /\ validate(op.input).ok
     /\ op.out.result.ok)
    => \A k \in MovesOf(op.out.ops) :
           LET dir == op.out.ops[k].to.dir
               root == documents_root(config)
           IN  /\ Len(dir) = Len(root) + 2
               /\ SubSeq(dir, 1, Len(root)) = root
               /\ Len(dir[Len(root) + 1]) = 4
               /\ \A i \in 1..4 : dir[Len(root) + 1][i] \in DigitTokens
               /\ dir[Len(root) + 2] \in MonthNames

(***************************************************************************)
(* Properties of the buckets of a run of process_life_directory.           *)
(***************************************************************************)
TimesIn(seq, x) == Cardinality({i \in 1..Len(seq) : seq[i] = x})

\* the run ended in categorize_files, on the error of read_directory
ScanFailed == lpc = "done" /\ ret = Some(Err("Io")) /\ tagIo = << >> /\ llog = << >>

\* the bucket that the claim gives a regular file of the inbox
BucketOf(p) ==
    IF ~ parse_metadata(fs0, p).ok THEN "unknown"
    ELSE IF parse_metadata(fs0, p).val.file_type \in {"Image", "Video"} THEN "media"
    ELSE IF parse_metadata(fs0, p).val.file_type = "Document" THEN "document"
    ELSE "unknown"

\* C17: categorize_files puts every regular file of the inbox in exactly one
\* bucket (Image and Video in media, Document in document, Unknown and files whose
\* metadata cannot be parsed in unknown) and passes over the entries that are not
\* regular files; the files of the unknown bucket are never renamed or moved
\* during the run (they stay in the inbox as they were); and a run that returns Ok
\* has files_skipped equal to the size of the unknown bucket.
C17_BucketsAndSkipped ==
    (lpc # "scan" /\ ~ ScanFailed) =>
        /\ \A p \in DirectoryPaths(fs0, inbox_path(config)) :
              LET media == TimesIn(categorized.media_files, p)
                  document == TimesIn(categorized.document_files, p)
                  unknown == TimesIn(categorized.unknown_files, p)
              IN  IF is_file(fs0, p)
                  THEN /\ media + document + unknown = 1
                       /\ media = 1 <=> BucketOf(p) = "media"
                       /\ document = 1 <=> BucketOf(p) = "document"
                       /\ unknown = 1 <=> BucketOf(p) = "unknown"
                  ELSE media + document + unknown = 0
        /\ \A i \in 1..Len(categorized.unknown_files) :
              LET p == categorized.unknown_files[i]
              IN  /\ p \in DOMAIN fs
                  /\ fs[p] = fs0[p]
                  /\ \A k \in 1..Len(llog) : \A j \in 1..Len(llog[k].ops) :
                        llog[k].ops[j].op \in {"rename", "move"}
                            => llog[k].ops[j].from # p
        /\ (ret.some /\ ret.val.ok) =>
              ret.val.val.files_skipped = Len(categorized.unknown_files)

(***************************************************************************)
(* Properties of the members of the dictionary and of the tags file.       *)
(***************************************************************************)
\* C18: after any sequence of load_from_file, add_tag and resolutions of typed
\* tags every member of the dictionary satisfies the tag format rule; add_tag of a
\* string that does not satisfy it returns an error and leaves the dictionary
\* unchanged, and add_tag of a tag already present leaves the set unchanged.
C18_MembersAreTags ==
    /\ \A t \in dict : IsKebabTag(t)
    /\ op.name = "add_tag" =>
          /\ ~ IsKebabTag(op.tag) => (~ op.result.ok /\ dict = op.before)
          /\ op.tag \in op.before => dict = op.before
          /\ IsKebabTag(op.tag) => (op.result.ok /\ dict = op.before \cup {op.tag})

\* with "ab" and "a" in the dictionary, add_tag of "A" was refused
C18_Witness ==
    /\ op.name = "add_tag"
    /\ op.tag = <<65>>
    /\ ~ op.result.ok
    /\ dict = {<<97, 98>>, <<97>>}

\* a comes before b in the alphabetical order of strings
Alphabetical(a, b) ==
    \E k \in 0..Len(a) :
        /\ k <= Len(b)
        /\ SubSeq(a, 1, k) = SubSeq(b, 1, k)
        /\ IF k = Len(a) THEN k < Len(b) ELSE k < Len(b) /\ a[k + 1] < b[k + 1]

\* the lines of a content: what stands before each "\n"
WrittenLines(content) ==
    SubSeq(split_chars(content, 10), 1, Len(split_chars(content, 10)) - 1)

\* C20: save_to_file writes one tag per line, in ascending alphabetical order, each
\* tag exactly once, and ends the file with a newline; saving a dictionary and then
\* loading the same path gives a dictionary with the same set of tags, for every
\* dictionary, the empty one included.
C20_SaveThenLoad ==
    /\ (op.name = "save_to_file" /\ op.saved.result.ok) =>
          LET content == op.saved.content
              lines == WrittenLines(content)
          IN  /\ content # << >>
              /\ content[Len(content)] = 10
              /\ IF dict = {} THEN content = <<10>>
                 ELSE /\ Len(lines) = Cardinality(dict)
                      /\ {lines[i] : i \in 1..Len(lines)} = dict
                      /\ \A i, j \in 1..Len(lines) : i < j => Alphabetical(lines[i], lines[j])
    /\ op.name = "load_saved" =>
          /\ op.result = Ok(op.before)
          /\ dict = op.before

\* the dictionary {b, a} was written as "a\nb\n" and read back
C20_Witness ==
    /\ op.name = "load_saved"
    /\ op.before = {<<98>>, <<97>>}
    /\ op.content = <<97, 10, 98, 10>>
    /\ dict = {<<97>>, <<98>>}

\* the empty dictionary was written as "\n" and read back
C20_WitnessEmpty ==
    /\ op.name = "load_saved"
    /\ op.before = {}
    /\ op.content = <<10>>
    /\ dict = {}

(***************************************************************************)
(* Properties of the file system operations of the media pipeline.         *)
(***************************************************************************)
\* the renames, hashes and moves among the operations of a call
EffectsOf(ops) == {i \in 1..Len(ops) : ops[i].op \in {"rename", "hash", "move"}}

\* C21: process_single_file makes no rename, hash or move on a file of category
\* Unknown or Document: it fails with UnsupportedFileType and the file system is as
\* before; so every rename, hash or move of the media pipeline is on a file of
\* category Image or Video; and when the metadata cannot be parsed the call fails
\* with the error of the parser and the file system is as before.
C21_OnlyMediaTouched ==
    op.name = "process_single_file" =>
        LET parsed == parse_metadata(fs0, op.path)
        IN  /\ ~ parsed.ok =>
                  /\ op.out.result = parsed
                  /\ EffectsOf(op.out.ops) = {}
                  /\ fs = fs0
            /\ (parsed.ok /\ parsed.val.file_type \in {"Unknown", "Document"}) =>
                  /\ op.out.result = Err("UnsupportedFileType")
                  /\ EffectsOf(op.out.ops) = {}
                  /\ fs = fs0
            /\ EffectsOf(op.out.ops) # {} =>
                  parsed.ok /\ parsed.val.file_type \in {"Image", "Video"}

\* a.jpg, a document with a capture datetime and an extension, was refused and
\* is where it was
C21_Witness ==
    /\ op.name = "process_single_file"
    /\ op.path.name = <<"a", ".", "jpg">>
    /\ parse_metadata(fs0, op.path).ok
    /\ parse_metadata(fs0, op.path).val.file_type = "Document"
    /\ parse_metadata(fs0, op.path).val.datetime_original = Some(DateTime1)
    /\ op.out.result = Err("UnsupportedFileType")
    /\ fs = fs0

\* the kinds of the operations of a call, in order
KindsOf(ops) == [i \in 1..Len(ops) |-> ops[i].op]

\* the orders in which one call may issue its operations: a rename if any, then
\* the existence check, then a hash if any, then the move; cut where the call fails
PipelineOrders ==
    { << >>, <<"rename">>, <<"exists">>, <<"rename", "exists">>,
      <<"exists", "hash">>, <<"rename", "exists", "hash">>,
      <<"exists", "move">>, <<"rename", "exists", "move">>,
      <<"exists", "hash", "move">>, <<"rename", "exists", "hash", "move">> }

\* where the file is once the in-place rename is over
IntermediatePath(path, ops) ==
    IF ops # << >> /\ ops[1].op = "rename" THEN ops[1].to ELSE path

\* C22: the file system operations of process_single_file come in the order
\* in-place rename, target-existence check, duplicate resolution, move. The rename
\* is made only when the generated name differs from the current name and stays in
\* the directory of the file; duplicate resolution (the hash, the refusal, another
\* target than the one checked) happens only when the target exists; the move
\* happens at most once, is the last operation, and is from the intermediate path.
C22_OperationOrder ==
    op.name = "process_single_file" =>
        LET ops == op.out.ops
            source == IntermediatePath(op.path, ops)
            ExistsAtCheck(t) == t = source \/ (t \in DOMAIN fs0 /\ t # op.path)
        IN  /\ KindsOf(ops) \in PipelineOrders
            /\ \A i \in 1..Len(ops) :
                 /\ ops[i].op = "rename" =>
                       /\ ops[i].from = op.path
                       /\ ops[i].to.dir = op.path.dir
                       /\ ops[i].to.name # op.path.name
                 /\ ops[i].op = "exists" =>
                       /\ ops[i].to.name = source.name
                       /\ op.out.result = Err("FileAlreadyExists") => ExistsAtCheck(ops[i].to)
                       /\ ~ ExistsAtCheck(ops[i].to) =>
                             /\ i < Len(ops)
                             /\ ops[i + 1] = FsOp("move", source, ops[i].to)
                 /\ ops[i].op = "hash" =>
                       /\ ops[i].from = source
                       /\ ExistsAtCheck(ops[i - 1].to)
                 /\ ops[i].op = "move" =>
                       /\ i = Len(ops)
                       /\ ops[i].from = source
                       /\ \A j \in ProbesOf(ops) :
                             ops[i].to # ops[j].to => ExistsAtCheck(ops[j].to)

\* a.jpg was renamed in place, its target was found taken, its bytes were hashed
\* and it was moved from the intermediate path to the target with the hash
C22_Witness ==
    /\ op.name = "process_single_file"
    /\ op.path.name = <<"a", ".", "jpg">>
    /\ KindsOf(op.out.ops) = <<"rename", "exists", "hash", "move">>
    /\ op.out.ops[2].to = ArchivePath1
    /\ op.out.ops[4].from = op.out.ops[1].to
    /\ op.out.ops[4].to = ArchivePath1Hashed
    /\ op.out.result.ok

\* the generated name was already the name of the file: no rename, and the move
\* is from the path of the file itself
C22_WitnessNoRename ==
    /\ op.name = "process_single_file"
    /\ KindsOf(op.out.ops) = <<"exists", "move">>
    /\ op.out.ops[2].from = op.path
    /\ op.out.result.ok

(***************************************************************************)
(* Properties of the tags prompt.                                          *)
(***************************************************************************)
\* the tags typed on the lines of a call, in order, up to an error of the console
RECURSIVE TypedTags(_)
TypedTags(lines) ==
    IF lines = << >> \/ Head(lines).kind # "line" THEN << >>
    ELSE Head(lines).val \o TypedTags(Tail(lines))

\* what the typed tags resolve to, one after the other, the rejected ones left out
RECURSIVE ResolvedInOrder(_, _, _)
ResolvedInOrder(tags, typed, create) ==
    IF typed = << >> THEN << >>
    ELSE (IF resolve_single_tag(tags, Head(typed), create).result.val.some
          THEN <<resolve_single_tag(tags, Head(typed), create).result.val.val>>
          ELSE << >>)
         \o ResolvedInOrder(resolve_single_tag(tags, Head(typed), create).tags,
                            Tail(typed), create)

FirstIndex(seq, x) == CHOOSE i \in 1..Len(seq) :
                         seq[i] = x /\ \A j \in 1..(i - 1) : seq[j] # x

\* C23: when prompt_tags returns successfully, its list has at least one tag, no
\* tag twice, every tag is one that a typed tag resolved to, and the tags are in the
\* order in which each was first resolved.  When no typed tag resolves (empty
\* lines, lines of rejected tags) the call does not return a list: it prompts again
\* until the console ends the input.
C23_PromptTagsNonEmpty ==
    op.name = "prompt_tags" =>
        LET resolved == ResolvedInOrder(op.before, TypedTags(op.lines), op.create)
            selected == op.result.val
        IN  /\ op.result.ok =>
                  /\ selected # << >>
                  /\ \A i, j \in 1..Len(selected) : i # j => selected[i] # selected[j]
                  /\ \A i \in 1..Len(selected) :
                        \E k \in 1..Len(resolved) : resolved[k] = selected[i]
                  /\ \A i, j \in 1..Len(selected) :
                        i < j => FirstIndex(resolved, selected[i])
                                    < FirstIndex(resolved, selected[j])
            /\ resolved = << >> =>
                  /\ ~ op.result.ok
                  /\ op.result.err = "InvalidUserInput"

\* an empty line, then a line whose only tag is rejected, then "b, a": the call
\* returned [b, a]
C23_Witness ==
    /\ op.name = "prompt_tags"
    /\ op.lines = <<Line(<< >>), Line(<<(<<65>>)>>), Line(<<(<<98>>), (<<97>>)>>)>>
    /\ op.result = Ok(<<(<<98>>), (<<97>>)>>)

\* "a, a" was typed and a is in the list once
C23_WitnessTwice ==
    /\ op.name = "prompt_tags"
    /\ op.lines = <<Line(<<(<<97>>), (<<97>>)>>)>>
    /\ op.result = Ok(<<(<<97>>)>>)

(***************************************************************************)
(* Properties of what a run leaves of the files of the inbox.              *)
(***************************************************************************)
\* the regular files of a directory
FilesIn(files, dir) == {p \in DOMAIN files : p.dir = dir /\ files[p].kind = "file"}

\* the paths, anywhere, that hold the same bytes and metadata as an entry
CopiesOf(files, entry) == {p \in DOMAIN files : files[p] = entry}

\* the in-place renames among the operations of a logged attempt
RenamedInPlace(entry) ==
    {j \in 1..Len(entry.ops) : entry.ops[j].op = "rename"}

\* C24: the in-place rename of the media pipeline never lands on a path where
\* something already is, and when process_directory has returned every file
\* that was in the inbox at the start still exists somewhere, in the inbox or in
\* the archive.
C24_NoInboxFileLost ==
    /\ [][ (Len(dlog') > Len(dlog) /\ dlog'[Len(dlog')].regular) =>
              \A j \in RenamedInPlace(dlog'[Len(dlog')]) :
                  dlog'[Len(dlog')].ops[j].from \notin DOMAIN fs'
                      => dlog'[Len(dlog')].ops[j].to \notin DOMAIN fs ]_vars
    /\ [](dpc = "done" =>
            \A p \in FilesIn(fs0, config.inbox_path) :
                Cardinality(CopiesOf(fs, fs0[p]))
                    >= Cardinality({q \in FilesIn(fs0, config.inbox_path) : fs0[q] = fs0[p]}))

\* C25: under the AppendHash policy the final move of either pipeline never
\* lands on a path of the archive where a file already is.
C25_AppendHashNeverOverwrites ==
    (/\ op.name \in {"process_single_file", "process_single_document"}
     /\ config.handle_duplicates = "AppendHash"
     /\ op.out.result.ok)
    => \A i \in MovesOf(op.out.ops) : op.out.ops[i].to \notin DOMAIN fs0

\* C26: when process_single_file returns an error it has renamed nothing and
\* moved nothing: the file is in the inbox under its original name and every
\* other path is as it was.
C26_ErrorLeavesFileInPlace ==
    (op.name = "process_single_file" /\ ~ op.out.result.ok) =>
        /\ op.path \in DOMAIN fs
        /\ fs[op.path] = fs0[op.path]
        /\ fs = fs0

(***************************************************************************)
(* Properties of the counters of a run.                                    *)
(***************************************************************************)
\* the positions of the listing that hold a regular file when the run starts
RegularEntries(paths) == {k \in 1..Len(paths) : is_file(fs0, paths[k])}

\* C27: after process_directory returns Ok, processed_files + skipped_files +
\* failed_files is the number of regular files in the listing, whether
\* skip_unsupported_files is set or not.
C27_CountersSumToListing ==
    (dpc = "done" /\ ret.val.ok) =>
        ret.val.val.processed_files + ret.val.val.skipped_files + ret.val.val.failed_files
            = Cardinality(RegularEntries(listing.paths))

(***************************************************************************)
(* Properties of a run of process_life_directory that returns an error.    *)
(***************************************************************************)
MediaEntries == {i \in 1..Len(llog) : llog[i].phase = "media"}

\* every regular file of the inbox is where it was when the run started
InboxUntouched ==
    \A p \in FilesIn(fs0, inbox_path(config)) : p \in DOMAIN fs /\ fs[p] = fs0[p]

\* C28 as stated: when process_life_directory returns an error, no file of the
\* inbox has been renamed or moved during the run.
C28_ErrorMeansNoEffect ==
    (lpc = "done" /\ ~ ret.val.ok) => InboxUntouched

\* C28: process_life_directory returns an error in three cases only.  When the
\* listing fails, no file of the inbox has been renamed or moved.  When the load of
\* the dictionary fails, the document bucket is not empty, the media phase has
\* attempted every media file (and may have renamed and moved them), no document
\* has been prompted for or handled, and the error is that of the load.  When the
\* save fails, the load had succeeded, the media phase and the document loop are
\* over (media files and documents may have been moved), and the error is that of
\* the save.
C28_ErrorsAndEffects ==
    (lpc = "done" /\ ~ ret.val.ok) =>
           \/ ScanFailed /\ fs = fs0
           \/ /\ categorized.document_files # << >>
              /\ Cardinality(MediaEntries) = Len(categorized.media_files)
              /\ Cardinality(Loads) = 1
              /\ \/ /\ \A k \in Loads : ~ tagIo[k].ok
                    /\ Saves = {}
                    /\ DocEntries = {}
                    /\ ret.val = load_from_file(tagsFile)
                 \/ /\ \A k \in Loads : tagIo[k].ok
                    /\ Saves = {Len(tagIo)}
                    /\ ~ tagIo[Len(tagIo)].ok
                    /\ DocEntries # {}
                    /\ \A i \in DocEntries : \A j \in MediaEntries : j < i
                    /\ ret.val = Err("TagDictionaryCorrupted")

\* the media phase moved a.jpg to the archive, then the dictionary could not be
\* loaded and the run returned the error
C28_Witness ==
    /\ lpc = "done"
    /\ ~ ret.val.ok
    /\ \E k \in Loads : ~ tagIo[k].ok
    /\ \E i \in MediaEntries :
          /\ llog[i].outcome.ok
          /\ llog[i].path.name = <<"a", ".", "jpg">>
          /\ llog[i].path \notin DOMAIN fs
          /\ ArchivePath1 \in DOMAIN fs

\* a document was moved, then the dictionary could not be saved and the run
\* returned the error
C28_WitnessSave ==
    /\ lpc = "done"
    /\ ~ ret.val.ok
    /\ \E k \in Saves : ~ tagIo[k].ok
    /\ \E i \in DocEntries : llog[i].outcome.ok /\ llog[i].path \notin DOMAIN fs

(***************************************************************************)
(* Properties of the tags of the documents of a batch.                     *)
(***************************************************************************)
\* {date}_{description}@@{t1,...,tn}, the file name of a document up to the
\* extension and to the hash that duplicate resolution may add
DocumentStem(input) ==
    ToTokens(input.date) \o <<"_">> \o ToTokens(input.description) \o <<"@", "@">>
        \o CommaSeparated(input.tags)

\* C29: every tag of a DocumentInput that collect_input returns is in the
\* in-memory dictionary when it returns; and after a batch whose final save
\* succeeds, every document moved in the batch has a file name made of the tags of
\* its DocumentInput, and the tags file has each of these tags on a line.
C29_FiledTagsAreSaved ==
    /\ \A i \in DocEntries :
          llog[i].collected.ok =>
              \A k \in 1..Len(llog[i].collected.val.tags) :
                  llog[i].collected.val.tags[k] \in llog[i].tags_after
    /\ (lpc = "done" /\ ret.val.ok /\ Saves # {}) =>
          \A i \in DocEntries :
              (llog[i].collected.ok /\ llog[i].outcome.ok) =>
                  LET input == llog[i].collected.val
                  IN  /\ MovesOf(llog[i].ops) # {}
                      /\ \A m \in MovesOf(llog[i].ops) :
                            /\ llog[i].ops[m].from = llog[i].path
                            /\ Len(llog[i].ops[m].to.name) > Len(DocumentStem(input))
                            /\ SubSeq(llog[i].ops[m].to.name, 1, Len(DocumentStem(input)))
                                  = DocumentStem(input)
                      /\ \A k \in 1..Len(input.tags) :
                            \E n \in 1..Len(tagsFile.lines) :
                                tagsFile.lines[n] = input.tags[k]

\* a document was filed with the tags ab and b, b created at the prompt: the tags
\* file, which had the line ab only, has the lines ab and b after the batch
C29_Witness ==
    /\ lpc = "done"
    /\ ret.val.ok
    /\ \E i \in DocEntries :
          /\ llog[i].collected.ok
          /\ llog[i].outcome.ok
          /\ llog[i].collected.val.tags = <<(<<97, 98>>), (<<98>>)>>
          /\ llog[i].tags_before = {<<97, 98>>}
          /\ llog[i].tags_after = {<<97, 98>>, <<98>>}
    /\ tagsFile.lines = <<(<<97, 98>>), (<<98>>)>>

\* C30: when process_life_directory returns Ok and no document was cancelled,
\* media_processed + documents_processed + files_failed + files_skipped is the
\* number of regular files the inbox listing had, and errors has files_failed
\* entries.
C30_LifeCountersSumToListing ==
    (lpc = "done" /\ ret.val.ok /\ \A i \in 1..Len(llog) : ~ Cancelled(i)) =>
        /\ ret.val.val.media_processed + ret.val.val.documents_processed
              + ret.val.val.files_failed + ret.val.val.files_skipped
                 = Cardinality(FilesIn(fs0, inbox_path(config)))
        /\ Len(ret.val.val.errors) = ret.val.val.files_failed

\* an inbox of an image without capture date and a document whose prompt was
\* interrupted: two files, two failures, two errors
C30_Witness ==
    /\ lpc = "done"
    /\ ret.val.ok
    /\ \A i \in 1..Len(llog) : ~ Cancelled(i)
    /\ Cardinality(FilesIn(fs0, inbox_path(config))) = 2
    /\ Cardinality(MediaEntries) = 1
    /\ Cardinality(DocEntries) = 1
    /\ ret.val.val.files_failed = 2
    /\ Len(ret.val.val.errors) = 2

\* an image was moved and a file of no known type was left where it was
C30_WitnessSkipped ==
    /\ lpc = "done"
    /\ ret.val.ok
    /\ ret.val.val.media_processed = 1
    /\ ret.val.val.files_skipped = 1
    /\ ret.val.val.files_failed = 0

====
